---- MODULE Spec2Model ----
(***************************************************************************)
(* Model of the chess position-evaluation and commentary pipeline:         *)
(*   - src/CloudReviews.py            (the interactive review script)      *)
(*   - src/server/app/chess_analyzer.py (the ChessAnalyzer service class)  *)
(*                                                                         *)
(* Conventions.                                                            *)
(*   Python value          model value                                     *)
(*   None                  None          = [t |-> "none"]                  *)
(*   int / float score     Num(v)        v in hundredths of a pawn         *)
(*   display string        Str(s)        s a sequence of characters        *)
(*   "a b c" (words)       <<"a","b","c">> the words str.split() yields    *)
(* The chess library (python-chess) is outside the repository; a position  *)
(* is a row of the table Board(fen) that carries what the library answers  *)
(* for it (placement, side to move, game-over predicates, attacks, legal   *)
(* moves).                                                                 *)
(***************************************************************************)
EXTENDS Integers, Sequences, FiniteSets, TLC

VARIABLES
    program,     \* which program of the repository runs: "server" | "cli"
    cache,       \* ChessAnalyzer.cache: fen -> record (server)
    EVAL_CACHE,  \* CloudReviews.EVAL_CACHE: cache_key -> result (cli)
    remoteLog,   \* every requests.get issued to the cloud-eval endpoint, in order
    callLog,     \* every completed pipeline call: key, returned record, requests issued, remote answer
    cliCall,     \* the fetch_lichess_eval_json call suspended on its request, if any
    fmtIn,       \* format_eval: the arguments of the last call
    fmtOut,      \* format_eval: the value it returned
    sanIn,       \* uci_moves_to_san_list: the arguments of the running call
    sanLoop,     \* uci_moves_to_san_list: loop state (next token, san_list, count, pc)
    groqIn,      \* commentary generator: the arguments of the last call
    groqOut,     \* commentary generator: what the call did and returned
    groq_client, \* ChessAnalyzer.groq_client is set (TRUE) or None (FALSE)
    llmLog,      \* number of chat.completions.create requests issued
    apiLog,      \* every completed analyze_single_move / explore_variation call
    extIn,       \* token extractor: which extractor was called on which pvs entry
    extOut,      \* token extractor: the list it returned
    runs,        \* concurrent fetch_lichess_eval_json runs: each run's position in the code
    CACHE_LOCK,  \* CloudReviews.CACHE_LOCK: the run holding it, or 0
    lookupLog,   \* every lookup ("get") and write ("put") the runs made on the cache, in order
    review,      \* CloudReviews.run: the review loop's locals and its events so far
    move_analysis_cache, \* db.move_analysis_cache: (game_id, move_index) -> document
    moveLog,     \* every completed POST /analyse_move: request, response, requests issued
    games,       \* db.games: the ids of the stored games
    analyses,    \* db.analyses: its documents in insertion order
    httpLog      \* every request to a game endpoint: handler, game id, position in the handler, response

vars == <<program, cache, EVAL_CACHE, remoteLog, callLog, cliCall,
          fmtIn, fmtOut, sanIn, sanLoop, groqIn, groqOut, groq_client, llmLog, apiLog,
          extIn, extOut, runs, CACHE_LOCK, lookupLog, review,
          move_analysis_cache, moveLog, games, analyses, httpLog>>

pipelineVars == <<program, cache, EVAL_CACHE, remoteLog, callLog, cliCall>>
formatVars == <<fmtIn, fmtOut>>
sanVars == <<sanIn, sanLoop>>
groqVars == <<groqIn, groqOut>>
apiVars == <<groq_client, llmLog, apiLog>>
extractVars == <<extIn, extOut>>
concVars == <<runs, CACHE_LOCK, lookupLog>>
reviewVars == <<review>>
moveVars == <<move_analysis_cache, moveLog>>
gameVars == <<games, analyses, httpLog>>
restVars == <<extractVars, concVars, reviewVars, moveVars, gameVars>>

----------------------------------------------------------------------------
(* Bounds of the model *)

\* pipeline calls in one run
MaxCalls == 2
\* format_eval is applied to every cp in -CpMax .. CpMax
CpMax == 250
\* format_eval is applied to every mate in -MateMax .. MateMax
MateMax == 3
\* longest token list handed to uci_moves_to_san_list
MaxToks == 3
\* _get_llm_explanation is applied to every score in -ScoreMax .. ScoreMax (hundredths)
ScoreMax == 250
\* longest "moves" string (in words) and list (in entries) handed to the token extractors
MaxItems == 2
\* analyze_single_move / explore_variation calls in one run
MaxApiCalls == 1
\* concurrent runs of the evaluation function
MaxRuns == 2
\* input() calls answered before end of input
MaxPrompts == 3
\* POST /analyse_move requests received
MaxMoveRequests == 3
\* requests received by the game endpoints and /analyse_move together
MaxGameRequests == 3
\* POST /analyse_move requests received while the move index is checked
MaxIndexRequests == 2

----------------------------------------------------------------------------
(* Python values *)

None == [t |-> "none"]
Num(v) == [t |-> "num", v |-> v]
Str(s) == [t |-> "str", s |-> s]

IsNone(x) == x.t = "none"
IsNum(x) == x.t = "num"
IsStr(x) == x.t = "str"

Abs(n) == IF n < 0 THEN -n ELSE n

Digits == <<"0", "1", "2", "3", "4", "5", "6", "7", "8", "9">>

\* str(n) for n >= 0
RECURSIVE NatStr(_)
NatStr(n) ==
    IF n < 10 THEN <<Digits[n + 1]>>
    ELSE NatStr(n \div 10) \o <<Digits[(n % 10) + 1]>>

\* str(n) for an int
IntStr(n) == IF n < 0 THEN <<"-">> \o NatStr(-n) ELSE NatStr(n)

\* s[:n]
Take(s, n) == SubSeq(s, 1, IF Len(s) < n THEN Len(s) ELSE n)

RECURSIVE Flatten(_)
Flatten(ss) == IF ss = <<>> THEN <<>> ELSE Head(ss) \o Flatten(Tail(ss))

----------------------------------------------------------------------------
(* Positions: what chess.Board(fen) and its predicates answer *)

\* square numbers as in chess.SQUARES (a1 = 0 .. h8 = 63), from file and rank 1..8
Sq(file, rank) == 8 * (rank - 1) + (file - 1)
A1 == Sq(1, 1)
E1 == Sq(5, 1)
G1 == Sq(7, 1)
H1 == Sq(8, 1)
F2 == Sq(6, 2)
G2 == Sq(7, 2)
H2 == Sq(8, 2)
D4 == Sq(4, 4)
E4 == Sq(5, 4)
D5 == Sq(4, 5)
E5 == Sq(5, 5)
G6 == Sq(7, 6)
F7 == Sq(6, 7)
G7 == Sq(7, 7)
H7 == Sq(8, 7)
A8 == Sq(1, 8)
E8 == Sq(5, 8)
G8 == Sq(7, 8)
H8 == Sq(8, 8)

WHITE == TRUE
BLACK == FALSE

Piece(sq, type, color) == [sq |-> sq, type |-> type, color |-> color]
LegalMove(san, to, capture, check) ==
    [san |-> san, to |-> to, capture |-> capture, check |-> check]

FEN_KP_W == "4k3/8/8/8/4P3/8/8/4K3 w - - 0 1"
FEN_KP_B == "4k3/8/8/8/4P3/8/8/4K3 b - - 0 1"
FEN_KA1_CHECK == "7k/8/8/8/8/8/8/K6r w - - 0 1"
FEN_MATED_W == "7k/8/8/8/8/8/5PPP/r5K1 w - - 0 1"
FEN_MATED_B == "R5k1/5ppp/8/8/8/8/8/7K b - - 0 1"
FEN_STALEMATE == "7k/5Q2/6K1/8/8/8/8/8 b - - 0 1"
FEN_BARE_KINGS == "4k3/8/8/8/8/8/8/4K3 w - - 0 1"
FEN_75_MOVES == "4k3/8/8/8/4P3/8/8/4K3 w - - 150 80"
FEN_MALFORMED == "not a fen"
\* FEN_KP_W after 1.e5
FEN_KP_E5_B == "4k3/8/8/4P3/8/8/8/4K3 b - - 0 1"

ValidFens == {FEN_KP_W, FEN_KP_B, FEN_KA1_CHECK, FEN_MATED_W, FEN_MATED_B,
              FEN_STALEMATE, FEN_BARE_KINGS, FEN_75_MOVES}
Fens == ValidFens \cup {FEN_MALFORMED}
\* every position a cache can hold a record for
AllFens == Fens \cup {FEN_KP_E5_B}

NoBoard ==
    [valid |-> FALSE, turn |-> WHITE, pieces |-> {}, legal |-> <<>>,
     checkmate |-> FALSE, stalemate |-> FALSE, insufficient |-> FALSE,
     seventyfive |-> FALSE, fivefold |-> FALSE,
     wkAttacked |-> FALSE, bkAttacked |-> FALSE]

Live(turn, pieces, legal, wkAtt, bkAtt) ==
    [NoBoard EXCEPT !.valid = TRUE, !.turn = turn, !.pieces = pieces,
                    !.legal = legal, !.wkAttacked = wkAtt, !.bkAttacked = bkAtt]

KP_Pieces == {Piece(E1, "K", WHITE), Piece(E4, "P", WHITE), Piece(E8, "K", BLACK)}

\* chess.Board(fen); valid = FALSE stands for the ValueError of a malformed FEN.
\* A board built from a FEN has an empty move stack, so is_fivefold_repetition()
\* is FALSE for every row.
Board(fen) ==
    CASE fen = FEN_KP_W ->
           Live(WHITE, KP_Pieces,
                <<LegalMove("Kd1", Sq(4, 1), FALSE, FALSE), LegalMove("Kd2", Sq(4, 2), FALSE, FALSE),
                  LegalMove("Ke2", Sq(5, 2), FALSE, FALSE), LegalMove("Kf2", F2, FALSE, FALSE),
                  LegalMove("Kf1", Sq(6, 1), FALSE, FALSE), LegalMove("e5", E5, FALSE, FALSE)>>,
                FALSE, FALSE)
      [] fen = FEN_KP_B ->
           Live(BLACK, KP_Pieces,
                <<LegalMove("Kd8", Sq(4, 8), FALSE, FALSE), LegalMove("Kd7", Sq(4, 7), FALSE, FALSE),
                  LegalMove("Ke7", Sq(5, 7), FALSE, FALSE), LegalMove("Kf7", F7, FALSE, FALSE),
                  LegalMove("Kf8", Sq(6, 8), FALSE, FALSE)>>,
                FALSE, FALSE)
      [] fen = FEN_KP_E5_B ->
           Live(BLACK,
                {Piece(E1, "K", WHITE), Piece(E5, "P", WHITE), Piece(E8, "K", BLACK)},
                <<LegalMove("Kd8", Sq(4, 8), FALSE, FALSE), LegalMove("Kd7", Sq(4, 7), FALSE, FALSE),
                  LegalMove("Ke7", Sq(5, 7), FALSE, FALSE), LegalMove("Kf7", F7, FALSE, FALSE),
                  LegalMove("Kf8", Sq(6, 8), FALSE, FALSE)>>,
                FALSE, FALSE)
      [] fen = FEN_KA1_CHECK ->
           Live(WHITE,
                {Piece(A1, "K", WHITE), Piece(H1, "R", BLACK), Piece(H8, "K", BLACK)},
                <<LegalMove("Ka2", Sq(1, 2), FALSE, FALSE), LegalMove("Kb2", Sq(2, 2), FALSE, FALSE)>>,
                TRUE, FALSE)
      [] fen = FEN_MATED_W ->
           [Live(WHITE,
                 {Piece(G1, "K", WHITE), Piece(F2, "P", WHITE), Piece(G2, "P", WHITE),
                  Piece(H2, "P", WHITE), Piece(A1, "R", BLACK), Piece(H8, "K", BLACK)},
                 <<>>, TRUE, FALSE) EXCEPT !.checkmate = TRUE]
      [] fen = FEN_MATED_B ->
           [Live(BLACK,
                 {Piece(G8, "K", BLACK), Piece(F7, "P", BLACK), Piece(G7, "P", BLACK),
                  Piece(H7, "P", BLACK), Piece(A8, "R", WHITE), Piece(H1, "K", WHITE)},
                 <<>>, FALSE, TRUE) EXCEPT !.checkmate = TRUE]
      [] fen = FEN_STALEMATE ->
           [Live(BLACK,
                 {Piece(H8, "K", BLACK), Piece(F7, "Q", WHITE), Piece(G6, "K", WHITE)},
                 <<>>, FALSE, FALSE) EXCEPT !.stalemate = TRUE]
      [] fen = FEN_BARE_KINGS ->
           [Live(WHITE, {Piece(E1, "K", WHITE), Piece(E8, "K", BLACK)},
                 <<LegalMove("Kd1", Sq(4, 1), FALSE, FALSE), LegalMove("Kd2", Sq(4, 2), FALSE, FALSE),
                   LegalMove("Ke2", Sq(5, 2), FALSE, FALSE), LegalMove("Kf2", F2, FALSE, FALSE),
                   LegalMove("Kf1", Sq(6, 1), FALSE, FALSE)>>,
                 FALSE, FALSE) EXCEPT !.insufficient = TRUE]
      [] fen = FEN_75_MOVES ->
           [Live(WHITE, KP_Pieces,
                 <<LegalMove("Kd1", Sq(4, 1), FALSE, FALSE), LegalMove("Kd2", Sq(4, 2), FALSE, FALSE),
                   LegalMove("Ke2", Sq(5, 2), FALSE, FALSE), LegalMove("Kf2", F2, FALSE, FALSE),
                   LegalMove("Kf1", Sq(6, 1), FALSE, FALSE), LegalMove("e5", E5, FALSE, FALSE)>>,
                 FALSE, FALSE) EXCEPT !.seventyfive = TRUE]
      [] OTHER -> NoBoard

\* board.is_game_over()
is_game_over(b) ==
    b.checkmate \/ b.stalemate \/ b.insufficient \/ b.seventyfive \/ b.fivefold

----------------------------------------------------------------------------
(* The remote evaluation endpoint: what one requests.get can come back with *)

\* a JSON int
JInt(n) == [t |-> "int", v |-> n]
\* JSON true / false: a python bool, which is an int worth 1 / 0
JBool(b) == [t |-> "bool", v |-> IF b THEN 1 ELSE 0]
\* a JSON string, list or object as a score
JString == [t |-> "str"]
JArray == [t |-> "list"]
JDict == [t |-> "dict"]

\* the value under "moves" / "pv" of a principal variation
Absent == [k |-> "absent"]
\* the key is there and holds null (or any value that is neither str nor list)
NullV == [k |-> "null"]
StrV(words) == [k |-> "str", words |-> words]
ListV(items) == [k |-> "list", items |-> items]
\* entries of a list under "moves"
ItemStr(s) == [k |-> "str", s |-> s]
ItemDict(uci, move, fromTo) == [k |-> "dict", uci |-> uci, move |-> move, fromTo |-> fromTo]

\* one entry of "pvs"; a key that is absent and a key holding null read alike
\* in every test the code makes ("k" in pv and pv["k"] is not None)
PV(mate, cp, moves, pv) == [mate |-> mate, cp |-> cp, moves |-> moves, pv |-> pv]

Line_e5 == StrV(<<"e4e5", "e8e7">>)
Line_Kd2 == StrV(<<"e1d2", "e8d7", "e4e5">>)

PV_CP20 == PV(None, JInt(20), Line_e5, Absent)
PV_CP_NEG == PV(None, JInt(-100), Absent, Absent)
PV_MATE3 == PV(JInt(3), None, Line_e5, Absent)
PV_MATE_NEG2 == PV(JInt(-2), JInt(-900), Line_Kd2, Absent)
PV_NOSCORE == PV(None, None, Line_Kd2, Absent)
\* a line of nine moves
Line_Long ==
    StrV(<<"e4e5", "e8e7", "e1d2", "e7e6", "d2d3", "e6d5", "e5e6", "d5e6", "d3e4">>)
PV_LONG == PV(None, JInt(35), Line_Long, Absent)

\* response.json(): an object with (or without) "pvs", another JSON value, or
\* a body that does not decode
JsonObject(pvs) == [json |-> "object", pvs |-> pvs]
JsonList == [json |-> "list", pvs |-> <<>>]
BadJson == [json |-> "invalid", pvs |-> <<>>]

JsonBodies ==
    {JsonObject(<<>>), JsonObject(<<PV_CP20>>), JsonObject(<<PV_MATE3>>),
     JsonObject(<<PV_MATE_NEG2>>), JsonObject(<<PV_NOSCORE>>),
     JsonObject(<<PV_CP_NEG, PV_CP20>>), JsonList,
     JsonObject(<<PV_LONG, PV_CP20, PV_MATE3, PV_NOSCORE>>)}

Timeout == [kind |-> "Timeout", status |-> 0, body |-> BadJson]
ConnectionError == [kind |-> "ConnectionError", status |-> 0, body |-> BadJson]
Http(status, body) == [kind |-> "http", status |-> status, body |-> body]

\* every way the request of one call can end
RemoteAnswers ==
    {Timeout, ConnectionError, Http(404, BadJson), Http(500, BadJson)}
        \cup {Http(200, b) : b \in JsonBodies \cup {BadJson}}

\* the answer is HTTP 200 with a body that decodes
Is200Json(a) == a.kind = "http" /\ a.status = 200 /\ a.body.json # "invalid"

\* no request was made in the call
NoAnswer == [kind |-> "none", status |-> 0, body |-> BadJson]

----------------------------------------------------------------------------
(* ChessAnalyzer (server) *)

NoEntry == [t |-> "absent"]

\* the dict _get_position_evaluation returns; a key the dict lacks holds the
\* default the readers use (evaluation.get("terminal", False), ...)
Record(eval, best_move, variations, pvs) ==
    [eval |-> eval, best_move |-> best_move, variations |-> variations, pvs |-> pvs,
     terminal |-> FALSE, fallback |-> FALSE, error |-> "", note |-> ""]

\* _extract_moves_from_pv: the move tokens of one pvs entry
ItemToken(item) ==
    IF item.k = "str" THEN <<item.s>>
    ELSE IF item.k = "dict"
         THEN LET uci == IF item.uci # "" THEN item.uci
                         ELSE IF item.move # "" THEN item.move ELSE item.fromTo
              IN  IF uci # "" THEN <<uci>> ELSE <<>>
         ELSE <<>>

RECURSIVE ItemTokens(_)
ItemTokens(items) ==
    IF items = <<>> THEN <<>> ELSE ItemToken(Head(items)) \o ItemTokens(Tail(items))

LongEnough(m) == Len(m) >= 4

_extract_moves_from_pv(pv_data) ==
    LET moves ==
            IF pv_data = PV(None, None, Absent, Absent) THEN <<>>
            ELSE IF pv_data.moves # Absent
                 THEN IF pv_data.moves.k = "str" THEN pv_data.moves.words
                      ELSE IF pv_data.moves.k = "list" THEN ItemTokens(pv_data.moves.items)
                      ELSE <<>>
                 ELSE IF pv_data.pv # Absent /\ pv_data.pv.k = "str" THEN pv_data.pv.words
                 ELSE <<>>
    IN  SelectSeq(moves, LongEnough)

\* _handle_terminal_position
handle_terminal_without_flag(board) ==
    [Record(None, None, <<>>, <<>>) EXCEPT !.terminal = FALSE]

handle_terminal_draw_unknown(board) ==
    [Record(IF board.checkmate
            THEN IF board.turn THEN Str(<<"#", "-", "0">>) ELSE Str(<<"#", "+", "0">>)
            ELSE None,
            None, <<>>, <<>>) EXCEPT !.terminal = TRUE]

_handle_terminal_position(board) ==
    LET eval_score ==
            IF board.checkmate
            THEN IF board.turn THEN Str(<<"#", "-", "0">>) ELSE Str(<<"#", "+", "0">>)
            ELSE IF board.stalemate \/ board.insufficient \/ board.seventyfive
                    \/ board.fivefold
                 THEN Num(0)
                 ELSE None
    IN  [Record(eval_score, None, <<>>, <<>>) EXCEPT !.terminal = TRUE]

\* _calculate_material_balance, in hundredths of a pawn
piece_values(type) ==
    CASE type = "P" -> 100 [] type = "N" -> 300 [] type = "B" -> 300
      [] type = "R" -> 500 [] type = "Q" -> 900 [] OTHER -> 0

RECURSIVE SumValues(_)
SumValues(ps) ==
    IF ps = {} THEN 0
    ELSE LET p == CHOOSE q \in ps : TRUE
         IN  piece_values(p.type) + SumValues(ps \ {p})

_calculate_material_balance(board) ==
    SumValues({p \in board.pieces : p.color = WHITE})
        - SumValues({p \in board.pieces : p.color = BLACK})

center_squares == {E4, E5, D4, D5}

\* board.king(color): the king's square, or None
king(board, color) ==
    LET ks == {p \in board.pieces : p.type = "K" /\ p.color = color}
    IN  IF ks = {} THEN None ELSE JInt((CHOOSE p \in ks : TRUE).sq)

\* truth value of "white_king_square and ...": None and square 0 (a1) are falsy
Truthy(sq) == sq # None /\ sq.v # 0

\* _calculate_basic_positional_score, in hundredths of a pawn
_calculate_basic_positional_score(board) ==
    10 * Cardinality({p \in board.pieces : p.sq \in center_squares /\ p.color = WHITE})
    - 10 * Cardinality({p \in board.pieces : p.sq \in center_squares /\ p.color = BLACK})
    - (IF Truthy(king(board, WHITE)) /\ board.wkAttacked THEN 20 ELSE 0)
    + (IF Truthy(king(board, BLACK)) /\ board.bkAttacked THEN 20 ELSE 0)

\* _generate_basic_move_suggestions
Priority(move) ==
    IF move.capture THEN 3
    ELSE IF move.check THEN 2
    ELSE IF move.to \in center_squares THEN 1 ELSE 0

\* good_moves.sort(key=priority, reverse=True): stable, highest priority first
SortByPriority(moves) ==
    LET P3(m) == Priority(m) = 3
        P2(m) == Priority(m) = 2
        P1(m) == Priority(m) = 1
        P0(m) == Priority(m) = 0
    IN  SelectSeq(moves, P3) \o SelectSeq(moves, P2)
            \o SelectSeq(moves, P1) \o SelectSeq(moves, P0)

_generate_basic_move_suggestions(board) ==
    IF board.legal = <<>> THEN << <<"No", "legal", "moves">> >>
    ELSE LET top_moves == Take(SortByPriority(Take(board.legal, 20)), 3)
             Label(i) ==
                 IF i = 1 THEN <<top_moves[i].san, "(capture/check", "priority)">>
                 ELSE IF i = 2 THEN <<top_moves[i].san, "(tactical", "option)">>
                 ELSE <<top_moves[i].san, "(alternative)">>
         IN  [i \in 1..Len(top_moves) |-> Label(i)]

\* _provide_fallback_evaluation
fallback_eval_unknown(fen) ==
    [Record(None, None, <<>>, <<>>) EXCEPT !.fallback = TRUE]

_provide_fallback_evaluation(fen) ==
    LET board == Board(fen)
    IN  IF ~board.valid
        THEN [Record(Num(0), None, << <<"No", "analysis", "available">> >>, <<>>)
                EXCEPT !.fallback = TRUE, !.error = "Evaluation unavailable"]
        ELSE LET total_eval == _calculate_material_balance(board)
                                 + _calculate_basic_positional_score(board)
                 basic_variations == _generate_basic_move_suggestions(board)
             IN  [Record(Num(total_eval),
                         IF basic_variations # <<>> THEN Str(basic_variations[1][1]) ELSE None,
                         basic_variations, <<>>)
                    EXCEPT !.fallback = TRUE,
                           !.note = "Basic evaluation (Lichess cloud eval unavailable)"]

\* the eval of an HTTP 200 record: mate first, then cp / 100.0
ServerEval(first_pv) ==
    IF first_pv.mate # None
    THEN Str(<<"#">> \o (IF first_pv.mate.v > 0 THEN <<"+">> ELSE <<>>)
                 \o IntStr(first_pv.mate.v))
    ELSE IF first_pv.cp # None THEN Num(first_pv.cp.v) ELSE None

\* the variations without the limit of 8 moves
RECURSIVE variations_untrimmed(_)
variations_untrimmed(pvs) ==
    IF pvs = <<>> THEN <<>>
    ELSE LET pv_moves == _extract_moves_from_pv(Head(pvs))
         IN  (IF pv_moves # <<>> THEN <<pv_moves>> ELSE <<>>)
                 \o variations_untrimmed(Tail(pvs))

RECURSIVE Variations(_)
Variations(pvs) ==
    IF pvs = <<>> THEN <<>>
    ELSE LET pv_moves == _extract_moves_from_pv(Head(pvs))
         IN  (IF pv_moves # <<>> THEN <<Take(pv_moves, 8)>> ELSE <<>>)
                 \o Variations(Tail(pvs))

\* the record built from the decoded body of an HTTP 200 answer
RemoteRecord(data) ==
    LET pvs == data.pvs
        variations == Variations(Take(pvs, 3))
    IN  IF pvs = <<>> THEN Record(None, None, <<>>, pvs)
        ELSE Record(ServerEval(pvs[1]),
                    IF variations # <<>> /\ variations[1] # <<>>
                    THEN Str(variations[1][1]) ELSE None,
                    variations, pvs)

\* self.cache[fen] = result
cache_put_dropped(c, fen, result) == c

cache_put(c, fen, result) == [c EXCEPT ![fen] = result]

InvalidFenRecord == [Record(None, None, <<>>, <<>>) EXCEPT !.error = "Invalid FEN"]

\* _get_position_evaluation on cache c, the remote source answering `answer`
\* if asked: the returned record, the cache afterwards, the requests issued,
\* and the steps taken in the order the code takes them
_get_position_evaluation(c, fen, answer) ==
    IF c[fen] # NoEntry
    THEN [result |-> c[fen], cache |-> c, requests |-> <<>>,
          trace |-> <<"cache_check">>]
    ELSE LET test_board == Board(fen)
         IN  IF ~test_board.valid
             THEN [result |-> InvalidFenRecord, cache |-> c, requests |-> <<>>,
                   trace |-> <<"cache_check">>]
             ELSE IF is_game_over(test_board)
             THEN LET result == _handle_terminal_position(test_board)
                  IN  [result |-> result, cache |-> cache_put(c, fen, result),
                       requests |-> <<>>, trace |-> <<"cache_check">>]
             ELSE LET request == [fen |-> fen, multiPv |-> 3, depth |-> 15]
                      result ==
                          CASE answer.kind = "http" /\ answer.status = 200 ->
                                 \* response.json() raising, or data.get on a
                                 \* body that is no object, lands in "except Exception"
                                 IF answer.body.json = "object"
                                 THEN RemoteRecord(answer.body)
                                 ELSE _provide_fallback_evaluation(fen)
                            [] answer.kind = "http" /\ answer.status = 404 ->
                                 _provide_fallback_evaluation(fen)
                            [] answer.kind = "http" ->
                                 \* any other status: falls through to the fallback
                                 _provide_fallback_evaluation(fen)
                            [] OTHER ->
                                 \* Timeout, RequestException
                                 _provide_fallback_evaluation(fen)
                      served == answer.kind = "http" /\ answer.status = 200
                                    /\ answer.body.json = "object"
                  IN  [result |-> result, cache |-> cache_put(c, fen, result),
                       requests |-> <<request>>,
                       trace |-> <<"cache_check", "remote_request">>
                                    \o (IF served THEN <<>> ELSE <<"fallback">>)]

----------------------------------------------------------------------------
(* ChessAnalyzer: commentary *)

\* f"{eval_score:.1f}" of a score given in hundredths, kept as the value and
\* the precision it is rendered with
Fmt1(v) == [t |-> "fmt", v |-> v, decimals |-> 1]

\* the parts a text is assembled from: literal text, characters
T(s) == [t |-> "text", s |-> s]
Chars(cs) == [t |-> "chars", cs |-> cs]

\* the digits of a mate string: eval_score[1:] if it is all digits, else eval_score[2:]
IsDigit(ch) == \E i \in 1..10 : Digits[i] = ch
AllDigits(s) == s # <<>> /\ \A i \in 1..Len(s) : IsDigit(s[i])
MateNum(s) == IF AllDigits(Tail(s)) THEN Tail(s) ELSE Tail(Tail(s))

\* _get_llm_explanation: the templated sentence, as the sequence of its parts
_get_llm_explanation(fen, move_number, evaluation) ==
    LET eval_score == evaluation.eval
        best_move == evaluation.best_move
    IN  IF evaluation.terminal
        THEN IF IsStr(eval_score) /\ \E i \in 1..Len(eval_score.s) : eval_score.s[i] = "#"
             THEN <<T("Checkmate position reached.")>>
             ELSE <<T("Game ended in a draw (stalemate, insufficient material, or repetition).")>>
        ELSE IF IsNone(eval_score)
        THEN <<T("Position analysis unavailable. Engine unable to evaluate this position.")>>
        ELSE IF IsStr(eval_score) /\ eval_score.s # <<>> /\ Head(eval_score.s) = "#"
        THEN <<T("Mate in"), Chars(MateNum(eval_score.s)),
               T("moves detected! The position shows a forced checkmate sequence.")>>
        ELSE IF ~IsNum(eval_score)
        THEN <<T("Position evaluation unavailable due to analysis error.")>>
        ELSE LET band ==
                     IF eval_score.v > 200
                     THEN <<T("White has a significant advantage (+"), Fmt1(eval_score.v), T("). ")>>
                     ELSE IF eval_score.v < -200
                     THEN <<T("Black has a significant advantage ("), Fmt1(eval_score.v), T("). ")>>
                     ELSE IF eval_score.v > 50
                     THEN <<T("White is slightly better (+"), Fmt1(eval_score.v), T("). ")>>
                     ELSE IF eval_score.v < -50
                     THEN <<T("Black is slightly better ("), Fmt1(eval_score.v), T("). ")>>
                     ELSE <<T("Position is roughly equal ("), Fmt1(eval_score.v), T("). ")>>
                 best == IF best_move # None /\ best_move.s # ""
                         THEN <<T("Best move: "), T(best_move.s), T(".")>> ELSE <<>>
                 source == IF evaluation.fallback
                           THEN <<T(" (Basic analysis - cloud evaluation unavailable)")>>
                           ELSE <<T(" (Enable GROQ_API_KEY for detailed AI analysis)")>>
             IN  band \o best \o source

\* what groq_client.chat.completions.create can come back with
LlmRaises == [kind |-> "raises", source_named |-> FALSE]
LlmNoChoices == [kind |-> "no_choices", source_named |-> FALSE]
LlmContentNone == [kind |-> "content_none", source_named |-> FALSE]
LlmContentEmpty == [kind |-> "content_empty", source_named |-> FALSE]
\* a text; source_named: it already holds "Basic analysis" (fallback record) or
\* "Engine analysis" (remote record)
LlmText(source_named) == [kind |-> "text", source_named |-> source_named]

LlmAnswers ==
    {LlmRaises, LlmNoChoices, LlmContentNone, LlmContentEmpty, LlmText(TRUE), LlmText(FALSE)}

\* the call failed, or came back without usable content
LlmFailed(a) == a.kind # "text"

\* analysis_source of the prompt and of the bracketed source tag
analysis_source(evaluation) ==
    IF evaluation.variations # <<>> /\ ~evaluation.fallback THEN "Lichess engine analysis"
    ELSE IF evaluation.variations # <<>> /\ evaluation.fallback THEN "Basic position analysis"
    ELSE IF evaluation.fallback THEN "Basic material/positional analysis"
    ELSE "Limited analysis"

\* _get_groq_explanation with self.groq_client set (configured) or None, the
\* language model answering `answer` if asked: the returned text, the calls
\* of chat.completions.create made, whether an exception left the method, and
\* the steps taken in the order the code takes them
groq_explanation_retrying(configured, fen, move_index, evaluation, played_move, answer) ==
    IF configured /\ ~evaluation.terminal
    THEN [returned |-> _get_llm_explanation(fen, move_index, evaluation),
          llm_requests |-> 2, raised |-> FALSE,
          trace |-> <<"commentary_request", "commentary_request", "template">>]
    ELSE [returned |-> _get_llm_explanation(fen, move_index, evaluation),
          llm_requests |-> 0, raised |-> FALSE, trace |-> <<"template">>]

_get_groq_explanation(configured, fen, move_index, evaluation, played_move, answer) ==
    IF ~configured
    THEN [returned |-> _get_llm_explanation(fen, move_index, evaluation)
                          \o <<T(" (Note: Set GROQ_API_KEY for AI analysis)")>>,
          llm_requests |-> 0, raised |-> FALSE, trace |-> <<"template">>]
    ELSE IF evaluation.terminal
    THEN [returned |-> <<T("Game over position - no further analysis needed.")>>,
          llm_requests |-> 0, raised |-> FALSE, trace |-> <<>>]
    ELSE IF answer.kind \in {"raises", "no_choices"}
    THEN \* except Exception: the templated sentence
         [returned |-> _get_llm_explanation(fen, move_index, evaluation),
          llm_requests |-> 1, raised |-> FALSE,
          trace |-> <<"commentary_request", "template">>]
    ELSE IF answer.kind \in {"content_none", "content_empty"}
    THEN [returned |-> <<T("Analysis unavailable")>>, llm_requests |-> 1, raised |-> FALSE,
          trace |-> <<"commentary_request">>]
    ELSE [returned |->
              IF answer.source_named THEN <<T("<model text>")>>
              ELSE <<T("<model text>"), T(" [Source: "), T(analysis_source(evaluation)), T("]")>>,
          llm_requests |-> 1, raised |-> FALSE, trace |-> <<"commentary_request">>]

----------------------------------------------------------------------------
(* ChessAnalyzer: entry points *)

\* _check_if_best_move
_check_if_best_move(played_move, best_move) ==
    IF played_move = None \/ best_move = None THEN FALSE
    ELSE played_move.s = best_move.s

\* analyze_single_move: the returned dict, the cache afterwards, the remote
\* and language-model requests issued.  (evaluation and explanation are each
\* computed once and bound, as the two awaits do.)
analyze_single_move(c, configured, move_index, position_fen, played_move, answer, llm_answer) ==
    CHOOSE out \in UNION {
        { [returned |-> [eval |-> ev.result.eval,
                         explanation |-> ex.returned,
                         variations |-> ev.result.variations,
                         played_best |-> _check_if_best_move(played_move,
                                                             ev.result.best_move)],
           cache |-> ev.cache, requests |-> ev.requests,
           llm_requests |-> ex.llm_requests, trace |-> ev.trace \o ex.trace] :
            ex \in {_get_groq_explanation(configured, position_fen, move_index,
                                          ev.result, played_move, llm_answer)} } :
        ev \in {_get_position_evaluation(c, position_fen, answer)} } : TRUE

\* board.parse_san(move_str) finds a legal move (else it raises)
ParsesSan(board, move_str) ==
    \E i \in 1..Len(board.legal) : board.legal[i].san = move_str

\* board.push(move); board.fen()
FenAfter(fen, san) ==
    IF fen = FEN_KP_W /\ san = "e5" THEN FEN_KP_E5_B ELSE FEN_MALFORMED

\* the loop of analyze_variation from move i on; st carries the replay
\* position, the cache, the requests issued and the entries appended so far
RECURSIVE analyze_variation_loop(_, _, _, _, _, _)
analyze_variation_loop(st, configured, moves, i, answer, llm_answer) ==
    IF i > Len(moves) THEN st
    ELSE IF ~ParsesSan(Board(st.fen), moves[i])
    THEN \* InvalidMoveError / IllegalMoveError: continue
         analyze_variation_loop(st, configured, moves, i + 1, answer, llm_answer)
    ELSE CHOOSE out \in UNION { UNION {
             { analyze_variation_loop(
                   [fen |-> fen, cache |-> ev.cache,
                    requests |-> st.requests \o ev.requests,
                    llm_requests |-> st.llm_requests + ex.llm_requests,
                    trace |-> st.trace \o ev.trace \o ex.trace,
                    returned |-> Append(st.returned,
                                        [move_number |-> i, san |-> moves[i], fen |-> fen,
                                         eval |-> ev.result.eval,
                                         explanation |-> ex.returned,
                                         best_move |-> ev.result.best_move,
                                         variations |-> ev.result.variations])],
                   configured, moves, i + 1, answer, llm_answer) :
               ex \in {_get_groq_explanation(configured, fen, i, ev.result, None,
                                             llm_answer)} } :
             ev \in {_get_position_evaluation(st.cache, fen, answer)} } :
           fen \in {FenAfter(st.fen, moves[i])} } : TRUE

\* analyze_variation(start_fen, variation_moves); variation_moves as its words
analyze_variation(c, configured, start_fen, variation_moves, answer, llm_answer) ==
    LET nothing == [fen |-> start_fen, cache |-> c, requests |-> <<>>,
                    llm_requests |-> 0, trace |-> <<>>, returned |-> <<>>]
    IN  IF variation_moves = <<>> THEN nothing
        ELSE IF ~Board(start_fen).valid
        THEN \* chess.Board(start_fen) raises ValueError: except Exception, return []
             nothing
        ELSE analyze_variation_loop(nothing, configured, Take(variation_moves, 10), 1,
                                    answer, llm_answer)

\* POST /explore_variation: the status and body of the response.
\* VariationMoveAnalysis declares eval: Optional[float]; an entry whose eval is
\* a string fails validation, which the handler turns into a 500.
explore_variation(c, configured, start_fen, variation_moves, answer, llm_answer) ==
    CHOOSE out \in
        { LET invalid == \E i \in 1..Len(r.returned) : IsStr(r.returned[i].eval)
          IN  [status |-> IF invalid THEN 500 ELSE 200,
               body |-> IF invalid THEN <<>> ELSE r.returned,
               cache |-> r.cache, requests |-> r.requests,
               llm_requests |-> r.llm_requests, trace |-> r.trace] :
            r \in {analyze_variation(c, configured, start_fen, variation_moves,
                                     answer, llm_answer)} } : TRUE

----------------------------------------------------------------------------
(* CloudReviews.py (cli) *)

SEARCH_DEPTH == 15
ENABLE_EVAL_CACHE == TRUE

NA == <<"N", "/", "A">>

\* f"{cp/100:+.2f}" for an int cp
FormatCp(cp) ==
    (IF cp < 0 THEN <<"-">> ELSE <<"+">>)
        \o NatStr(Abs(cp) \div 100) \o <<".">>
        \o <<Digits[((Abs(cp) % 100) \div 10) + 1], Digits[(Abs(cp) % 10) + 1]>>

\* format_eval without the inversion for Black to move
format_eval_no_invert(eval_json, board) ==
    IF eval_json.json # "object" THEN NA
    ELSE IF eval_json.pvs = <<>> THEN NA
    ELSE LET pv == eval_json.pvs[1]
         IN  IF pv.mate # None
             THEN <<"#">> \o (IF pv.mate.v < 0 THEN <<>> ELSE <<"+">>) \o NatStr(Abs(pv.mate.v))
             ELSE IF pv.cp # None THEN FormatCp(pv.cp.v) ELSE NA

\* format_eval testing cp before mate
format_eval_cp_first(eval_json, board) ==
    IF eval_json.json # "object" THEN NA
    ELSE IF eval_json.pvs = <<>> THEN NA
    ELSE LET pv == eval_json.pvs[1]
         IN  IF pv.cp # None
             THEN FormatCp(IF ~board.turn THEN -pv.cp.v ELSE pv.cp.v)
             ELSE IF pv.mate # None
             THEN LET mate == IF ~board.turn THEN -pv.mate.v ELSE pv.mate.v
                  IN  <<"#">> \o (IF mate < 0 THEN <<>> ELSE <<"+">>) \o NatStr(Abs(mate))
             ELSE NA

\* -x, x < 0, abs(x) and x/100 are defined for an int (a bool is one) and
\* raise TypeError for a str, a list or a dict
Arithmetic(x) == x.t \in {"int", "bool"}

\* format_eval(eval_json, board)
format_eval(eval_json, board) ==
    IF eval_json.json # "object" THEN NA
    ELSE IF eval_json.pvs = <<>> THEN NA
    ELSE LET pv == eval_json.pvs[1]
         IN  IF pv.mate # None
             THEN IF ~Arithmetic(pv.mate) THEN NA  \* TypeError: except Exception
                  ELSE LET mate == IF ~board.turn THEN -pv.mate.v ELSE pv.mate.v
                           sign == IF mate < 0 THEN <<>> ELSE <<"+">>
                       IN  <<"#">> \o sign \o NatStr(Abs(mate))
             ELSE IF pv.cp # None
             THEN IF ~Arithmetic(pv.cp) THEN NA  \* TypeError: except Exception
                  ELSE LET cp == IF ~board.turn THEN -pv.cp.v ELSE pv.cp.v
                       IN  FormatCp(cp)
             ELSE NA

\* cache_key = f"{fen}|pv={multi_pv}|d={SEARCH_DEPTH}"
cache_key(fen, multi_pv) == <<fen, multi_pv, SEARCH_DEPTH>>

\* the result dict of fetch_lichess_eval_json
JsonResult(body) == [tag |-> "json", json |-> body, error |-> [what |-> "", status |-> 0]]
ErrorResult(what, status) ==
    [tag |-> "error", json |-> BadJson, error |-> [what |-> what, status |-> status]]

\* fetch_lichess_eval_json, after the request: the result for an answer
FetchResult(answer) ==
    IF answer.kind # "http" THEN ErrorResult(answer.kind, 0)
    ELSE IF answer.status # 200 THEN ErrorResult("HTTP", answer.status)
    ELSE IF answer.body.json = "invalid" THEN ErrorResult("bad JSON", 0)
    ELSE JsonResult(answer.body)

eval_cache_put_dropped(c, key, result) == c

eval_cache_put(c, key, result) ==
    IF ENABLE_EVAL_CACHE /\ result.tag # "error" THEN [c EXCEPT ![key] = result] ELSE c

\* _uci_list_from_pv: the move tokens of one pvs entry
_uci_list_from_pv(pv) ==
    LET moves ==
            IF pv = PV(None, None, Absent, Absent) THEN <<>>
            ELSE IF pv.moves # Absent
                 THEN IF pv.moves.k = "str" THEN pv.moves.words
                      ELSE IF pv.moves.k = "list" THEN ItemTokens(pv.moves.items)
                      ELSE <<>>
                 ELSE IF pv.pv # Absent /\ pv.pv.k = "str" THEN pv.pv.words
                 ELSE <<>>
    IN  SelectSeq(moves, LongEnough)

----------------------------------------------------------------------------
(* uci_moves_to_san_list: the replay loop *)

\* A token, by what the chess library does with it in the replay position:
\*   "uci"       Move.from_uci decodes it and the move is legal there
\*   "san"       Move.from_uci raises, temp.parse_san decodes it (legal there)
\*   "illegal"   Move.from_uci decodes it, the move is not legal there;
\*               temp.san(mv) and temp.push(mv) then raise or not, as the
\*               library's assertions on the position decide
\*   "malformed" Move.from_uci and temp.parse_san both raise
Token(kind, san_raises, push_raises) ==
    [kind |-> kind, san_raises |-> san_raises, push_raises |-> push_raises]

Tokens ==
    {Token("uci", FALSE, FALSE), Token("san", FALSE, FALSE), Token("malformed", FALSE, FALSE)}
        \cup {Token("illegal", s, p) : s \in BOOLEAN, p \in BOOLEAN}

Playable(tok) == tok.kind \in {"uci", "san"}

\* an entry of san_list: the notation of token i, or its raw text
Notation(i) == [token |-> i, form |-> "san"]
RawToken(i) == [token |-> i, form |-> "raw"]

SanIdle == [pc |-> "idle", i |-> 1, san_list |-> <<>>, count |-> 0]

\* one pass through the body of "for uci in uci_moves" for token i
uci_moves_to_san_list_step(loop, uci_moves, max_moves) ==
    LET uci == uci_moves[loop.i]
    IN  IF loop.count >= max_moves THEN [loop EXCEPT !.pc = "return"]
        ELSE IF uci.kind = "malformed" THEN [loop EXCEPT !.pc = "return"]
        ELSE LET san == IF uci.kind = "illegal" /\ uci.san_raises
                        THEN RawToken(loop.i) ELSE Notation(loop.i)
                 appended == Append(loop.san_list, san)
             IN  IF uci.kind = "illegal" /\ uci.push_raises
                 THEN [loop EXCEPT !.san_list = appended, !.pc = "return"]
                 ELSE [loop EXCEPT !.san_list = appended, !.count = @ + 1, !.i = @ + 1,
                                   !.pc = IF loop.i + 1 > Len(uci_moves)
                                          THEN "return" ELSE "loop"]

----------------------------------------------------------------------------
(* The evaluation pipeline as a state machine: one program of the repository
   runs, and its evaluation function is called up to MaxCalls times. *)

\* positions the review script evaluates (pre_board of a ply)
CliBoards == {FEN_KP_W, FEN_KP_B}
CliKeys == {cache_key(f, m) : f \in CliBoards, m \in {1, 3}}

NoCall == [pc |-> "idle", fen |-> "", multi_pv |-> 0]

\* a completed call of the evaluation function
Call(key, result, requests, answer) ==
    [key |-> key, result |-> result, requests |-> requests, answer |-> answer]

\* nothing of the kind has been called yet
extractIdle == extIn = None /\ extOut = None
concIdle == runs = <<>> /\ CACHE_LOCK = 0 /\ lookupLog = <<>>
reviewIdle == review = None
moveIdle == move_analysis_cache = <<>> /\ moveLog = <<>>
gameIdle == games = {} /\ analyses = <<>> /\ httpLog = <<>>
restIdle == extractIdle /\ concIdle /\ reviewIdle /\ moveIdle /\ gameIdle

coreIdle ==
    /\ fmtIn = None /\ fmtOut = None
    /\ sanIn = None /\ sanLoop = SanIdle
    /\ groqIn = None /\ groqOut = None
    /\ groq_client = FALSE /\ llmLog = 0 /\ apiLog = <<>>

otherIdle == coreIdle /\ restIdle

Init ==
    /\ program \in {"server", "cli"}
    /\ cache = [f \in AllFens |-> NoEntry]
    /\ EVAL_CACHE = [k \in CliKeys |-> NoEntry]
    /\ remoteLog = <<>>
    /\ callLog = <<>>
    /\ cliCall = NoCall
    /\ otherIdle

\* server: await self._get_position_evaluation(fen). The method has no await
\* inside (requests.get blocks), so it runs as one step.
ServerEvaluate(fen) ==
    /\ program = "server"
    /\ Len(callLog) < MaxCalls
    /\ \E answer \in RemoteAnswers :
         LET r == _get_position_evaluation(cache, fen, answer)
         IN  /\ cache' = r.cache
             /\ remoteLog' = remoteLog \o r.requests
             /\ callLog' = Append(callLog,
                                 Call(<<fen, 3, 15>>, r.result, Len(r.requests),
                                      IF r.requests = <<>> THEN NoAnswer ELSE answer))
    /\ UNCHANGED <<program, EVAL_CACHE, cliCall, formatVars, sanVars, groqVars, apiVars, restVars>>

\* cli: fetch_lichess_eval_json(board, multi_pv) up to its request; a cached
\* result is returned at once
CliFetch(fen, multi_pv) ==
    /\ program = "cli"
    /\ cliCall.pc = "idle"
    /\ Len(callLog) < MaxCalls
    /\ LET cached == IF ENABLE_EVAL_CACHE THEN EVAL_CACHE[cache_key(fen, multi_pv)]
                     ELSE NoEntry
       IN  IF cached # NoEntry
           THEN /\ callLog' = Append(callLog,
                                    Call(cache_key(fen, multi_pv), cached, 0, NoAnswer))
                /\ UNCHANGED <<remoteLog, cliCall>>
           ELSE /\ remoteLog' = Append(remoteLog,
                                      [fen |-> fen, multiPv |-> multi_pv,
                                       depth |-> SEARCH_DEPTH])
                /\ cliCall' = [pc |-> "requesting", fen |-> fen, multi_pv |-> multi_pv]
                /\ UNCHANGED callLog
    /\ UNCHANGED <<program, cache, EVAL_CACHE, formatVars, sanVars, groqVars, apiVars, restVars>>

\* cli: the request of the suspended call ends; the result is stored and returned
CliResponse(answer) ==
    /\ program = "cli"
    /\ cliCall.pc = "requesting"
    /\ LET key == cache_key(cliCall.fen, cliCall.multi_pv)
           result == FetchResult(answer)
       IN  /\ EVAL_CACHE' = eval_cache_put(EVAL_CACHE, key, result)
           /\ callLog' = Append(callLog, Call(key, result, 1, answer))
    /\ cliCall' = NoCall
    /\ UNCHANGED <<program, cache, remoteLog, formatVars, sanVars, groqVars, apiVars, restVars>>

Next ==
    \/ \E fen \in Fens : ServerEvaluate(fen)
    \/ \E fen \in CliBoards, multi_pv \in {1, 3} : CliFetch(fen, multi_pv)
    \/ \E answer \in RemoteAnswers : CliResponse(answer)

Spec == Init /\ [][Next]_vars

----------------------------------------------------------------------------
(* format_eval applied to every score within the bounds *)

FormatInputs ==
    {JsonObject(<<>>), JsonList}
        \cup {JsonObject(<<PV(mate, cp, Absent, Absent)>>) :
                 mate \in {None} \cup {JInt(n) : n \in -MateMax..MateMax},
                 cp \in {None} \cup {JInt(n) : n \in -CpMax..CpMax}}

pipelineIdle ==
    /\ cache = [f \in AllFens |-> NoEntry]
    /\ EVAL_CACHE = [k \in CliKeys |-> NoEntry]
    /\ remoteLog = <<>>
    /\ callLog = <<>>
    /\ cliCall = NoCall

InitFormat ==
    /\ program = "cli"
    /\ pipelineIdle
    /\ otherIdle

\* format_eval(eval_json, board) is called and returns
FormatCall(eval_json, fen) ==
    /\ fmtIn = None
    /\ fmtIn' = [eval_json |-> eval_json, fen |-> fen]
    /\ fmtOut' = Str(format_eval(eval_json, Board(fen)))
    /\ UNCHANGED <<pipelineVars, sanVars, groqVars, apiVars, restVars>>

\* the caller has printed the string
FormatDone ==
    /\ fmtIn # None
    /\ fmtIn' = None
    /\ fmtOut' = None
    /\ UNCHANGED <<pipelineVars, sanVars, groqVars, apiVars, restVars>>

NextFormat ==
    \/ \E eval_json \in FormatInputs, fen \in CliBoards : FormatCall(eval_json, fen)
    \/ FormatDone

SpecFormat == InitFormat /\ [][NextFormat]_vars

\* scores as any JSON value: null, an int, true, false, a string, a list, an object
JsonScores ==
    {None, JBool(TRUE), JBool(FALSE), JString, JArray, JDict}
        \cup {JInt(n) : n \in -MateMax..MateMax}

AnyFormatInputs ==
    {JsonObject(<<>>), JsonList}
        \cup {JsonObject(<<PV(mate, cp, Absent, Absent)>>) : mate \in JsonScores, cp \in JsonScores}

NextFormatAny ==
    \/ \E eval_json \in AnyFormatInputs, fen \in CliBoards : FormatCall(eval_json, fen)
    \/ FormatDone

SpecFormatAny == InitFormat /\ [][NextFormatAny]_vars

----------------------------------------------------------------------------
(* uci_moves_to_san_list applied to every token list within the bounds *)

TokenLists == UNION {[1..n -> Tokens] : n \in 0..MaxToks}

InitSan ==
    /\ program = "cli"
    /\ pipelineIdle
    /\ otherIdle

\* uci_moves_to_san_list(board, uci_moves, max_moves) is entered
SanCall(uci_moves, max_moves) ==
    /\ sanIn = None
    /\ sanIn' = [uci_moves |-> uci_moves, max_moves |-> max_moves]
    /\ sanLoop' = [SanIdle EXCEPT !.pc = IF uci_moves = <<>> THEN "return" ELSE "loop"]
    /\ UNCHANGED <<pipelineVars, formatVars, groqVars, apiVars, restVars>>

\* one pass through the loop body
SanIterate ==
    /\ sanIn # None
    /\ sanLoop.pc = "loop"
    /\ sanLoop' = uci_moves_to_san_list_step(sanLoop, sanIn.uci_moves, sanIn.max_moves)
    /\ UNCHANGED <<sanIn, pipelineVars, formatVars, groqVars, apiVars, restVars>>

\* return san_list
SanReturn ==
    /\ sanIn # None
    /\ sanLoop.pc = "return"
    /\ sanIn' = None
    /\ sanLoop' = SanIdle
    /\ UNCHANGED <<pipelineVars, formatVars, groqVars, apiVars, restVars>>

NextSan ==
    \/ \E uci_moves \in TokenLists, max_moves \in {2, 8} : SanCall(uci_moves, max_moves)
    \/ SanIterate
    \/ SanReturn

SpecSan == InitSan /\ [][NextSan]_vars

----------------------------------------------------------------------------
(* _get_groq_explanation applied to every record the evaluation function builds *)

EmptyCache == [f \in AllFens |-> NoEntry]

EvaluationRecords ==
    {_get_position_evaluation(EmptyCache, fen, answer).result :
         fen \in Fens, answer \in RemoteAnswers}

InitGroq ==
    /\ program = "server"
    /\ pipelineIdle
    /\ otherIdle

\* _get_groq_explanation(fen, move_index, evaluation, played_move) is called and returns
GroqCall(configured, evaluation, played_move, answer) ==
    /\ groqIn = None
    /\ groqIn' = [configured |-> configured, evaluation |-> evaluation,
                  played_move |-> played_move, answer |-> answer]
    /\ groqOut' = _get_groq_explanation(configured, FEN_KP_W, 1, evaluation,
                                        played_move, answer)
    /\ UNCHANGED <<pipelineVars, formatVars, sanVars, apiVars, restVars>>

GroqDone ==
    /\ groqIn # None
    /\ groqIn' = None
    /\ groqOut' = None
    /\ UNCHANGED <<pipelineVars, formatVars, sanVars, apiVars, restVars>>

NextGroq ==
    \/ \E configured \in BOOLEAN, evaluation \in EvaluationRecords,
          played_move \in {None, Str("e4e5")}, answer \in LlmAnswers :
              GroqCall(configured, evaluation, played_move, answer)
    \/ GroqDone

SpecGroq == InitGroq /\ [][NextGroq]_vars

----------------------------------------------------------------------------
(* _get_llm_explanation applied to every score within the bounds *)

TemplateRecords ==
    {[Record(Num(v), best_move, <<>>, <<>>) EXCEPT !.fallback = fallback] :
         v \in -ScoreMax..ScoreMax, best_move \in {None, Str("e4e5")},
         fallback \in BOOLEAN}
        \cup EvaluationRecords

InitTemplate ==
    /\ program = "server"
    /\ pipelineIdle
    /\ otherIdle

\* _get_llm_explanation(fen, move_number, evaluation) is called and returns
TemplateCall(evaluation) ==
    /\ groqIn = None
    /\ groqIn' = [evaluation |-> evaluation]
    /\ groqOut' = [returned |-> _get_llm_explanation(FEN_KP_W, 1, evaluation),
                   llm_requests |-> 0, raised |-> FALSE]
    /\ UNCHANGED <<pipelineVars, formatVars, sanVars, apiVars, restVars>>

TemplateDone ==
    /\ groqIn # None
    /\ groqIn' = None
    /\ groqOut' = None
    /\ UNCHANGED <<pipelineVars, formatVars, sanVars, apiVars, restVars>>

NextTemplate ==
    \/ \E evaluation \in TemplateRecords : TemplateCall(evaluation)
    \/ TemplateDone

SpecTemplate == InitTemplate /\ [][NextTemplate]_vars

----------------------------------------------------------------------------
(* The analyzer's entry points as a state machine *)

\* a completed call: what was called on which FEN, the status of the HTTP
\* response (0 for a plain method call), what came back, the remote requests
\* issued, whether the evaluation cache changed, the language-model calls
\* made and the steps taken
ApiCall(op, fen, status, returned, requests, cache_changed, llm_requests, trace) ==
    [op |-> op, fen |-> fen, status |-> status, returned |-> returned,
     requests |-> requests, cache_changed |-> cache_changed,
     llm_requests |-> llm_requests, trace |-> trace]

ApiLlmAnswers == {LlmRaises, LlmContentNone, LlmText(FALSE)}
VariationInputs == {<<>>, <<"e5">>, <<"Qh9">>, <<"Qh9", "e5">>}

InitApi ==
    /\ program = "server"
    /\ pipelineIdle
    /\ fmtIn = None /\ fmtOut = None
    /\ sanIn = None /\ sanLoop = SanIdle
    /\ groqIn = None /\ groqOut = None
    /\ groq_client \in BOOLEAN
    /\ llmLog = 0
    /\ apiLog = <<>>
    /\ restIdle

AnalyzeSingleMove(fen, played_move) ==
    /\ Len(apiLog) < MaxApiCalls
    /\ \E answer \in RemoteAnswers, llm_answer \in ApiLlmAnswers :
         \E r \in {analyze_single_move(cache, groq_client, 1, fen, played_move,
                                       answer, llm_answer)} :
             /\ cache' = r.cache
             /\ remoteLog' = remoteLog \o r.requests
             /\ llmLog' = llmLog + r.llm_requests
             /\ apiLog' = Append(apiLog,
                                ApiCall("analyze_single_move", fen, 0, r.returned,
                                        Len(r.requests), r.cache # cache,
                                        r.llm_requests, r.trace))
    /\ UNCHANGED <<program, EVAL_CACHE, callLog, cliCall, formatVars, sanVars, groqVars,
                   groq_client, restVars>>

ExploreVariation(start_fen, variation_moves) ==
    /\ Len(apiLog) < MaxApiCalls
    /\ \E answer \in RemoteAnswers, llm_answer \in ApiLlmAnswers :
         \E r \in {explore_variation(cache, groq_client, start_fen, variation_moves,
                                     answer, llm_answer)} :
             /\ cache' = r.cache
             /\ remoteLog' = remoteLog \o r.requests
             /\ llmLog' = llmLog + r.llm_requests
             /\ apiLog' = Append(apiLog,
                                ApiCall("explore_variation", start_fen, r.status, r.body,
                                        Len(r.requests), r.cache # cache,
                                        r.llm_requests, r.trace))
    /\ UNCHANGED <<program, EVAL_CACHE, callLog, cliCall, formatVars, sanVars, groqVars,
                   groq_client, restVars>>

NextApi ==
    \/ \E fen \in AllFens, played_move \in {None, Str("e4e5")} :
           AnalyzeSingleMove(fen, played_move)
    \/ \E start_fen \in {FEN_KP_W, FEN_KP_B, FEN_MALFORMED},
          variation_moves \in VariationInputs :
           ExploreVariation(start_fen, variation_moves)

SpecApi == InitApi /\ [][NextApi]_vars

----------------------------------------------------------------------------
(* The token extractors applied to every pvs entry within the bounds *)

SeqsUpTo(S, n) == UNION {[1..k -> S] : k \in 0..n}

ExtractWords == {"e2e4", "e7e5", "Nf3"}
ExtractItems ==
    {ItemStr("e2e4"), ItemStr("e4"), ItemDict("g1f3", "", ""), ItemDict("", "e7e5", ""),
     ItemDict("", "", "b8c6"), ItemDict("", "", "")}

\* what a pvs entry can hold under "moves" and under "pv"
MovesValues ==
    {Absent, NullV}
        \cup {StrV(w) : w \in SeqsUpTo(ExtractWords, MaxItems)}
        \cup {ListV(items) : items \in SeqsUpTo(ExtractItems, MaxItems)}
PvValues == {Absent, NullV, StrV(<<"e2e4", "e7e5">>), StrV(<<"e4">>)}

Payloads ==
    {PV(None, None, Absent, Absent)}
        \cup {PV(None, JInt(20), moves, pv) : moves \in MovesValues, pv \in PvValues}

InitExtract ==
    /\ program \in {"server", "cli"}
    /\ pipelineIdle
    /\ otherIdle

\* cli: _uci_list_from_pv(pv) is called and returns
CliExtract(pv) ==
    /\ program = "cli"
    /\ extIn = None
    /\ extIn' = [extractor |-> "_uci_list_from_pv", pv |-> pv]
    /\ extOut' = _uci_list_from_pv(pv)
    /\ UNCHANGED <<pipelineVars, formatVars, sanVars, groqVars, apiVars,
                   concVars, reviewVars, moveVars, gameVars>>

\* server: self._extract_moves_from_pv(pv_data) is called and returns
ServerExtract(pv_data) ==
    /\ program = "server"
    /\ extIn = None
    /\ extIn' = [extractor |-> "_extract_moves_from_pv", pv |-> pv_data]
    /\ extOut' = _extract_moves_from_pv(pv_data)
    /\ UNCHANGED <<pipelineVars, formatVars, sanVars, groqVars, apiVars,
                   concVars, reviewVars, moveVars, gameVars>>

\* the caller has used the list
ExtractDone ==
    /\ extIn # None
    /\ extIn' = None
    /\ extOut' = None
    /\ UNCHANGED <<pipelineVars, formatVars, sanVars, groqVars, apiVars,
                   concVars, reviewVars, moveVars, gameVars>>

NextExtract ==
    \/ \E pv \in Payloads : CliExtract(pv)
    \/ \E pv_data \in Payloads : ServerExtract(pv_data)
    \/ ExtractDone

SpecExtract == InitExtract /\ [][NextExtract]_vars

----------------------------------------------------------------------------
(* Reading a display string back *)

DigitVal(ch) == (CHOOSE i \in 1..10 : Digits[i] = ch) - 1

RECURSIVE ParseNat(_)
ParseNat(s) ==
    IF Len(s) = 1 THEN DigitVal(s[1])
    ELSE 10 * ParseNat(SubSeq(s, 1, Len(s) - 1)) + DigitVal(s[Len(s)])

\* digits, without a leading zero unless the number is a single digit
IsNumeral(s) == AllDigits(s) /\ (Len(s) > 1 => s[1] # "0")

\* <sign><d>.<dd>: the signed value in hundredths, or "none" if s is not of that form
ReadCp(s) ==
    IF /\ Len(s) >= 5
       /\ s[1] \in {"+", "-"}
       /\ s[Len(s) - 2] = "."
       /\ IsNumeral(SubSeq(s, 2, Len(s) - 3))
       /\ AllDigits(SubSeq(s, Len(s) - 1, Len(s)))
    THEN LET mag == 100 * ParseNat(SubSeq(s, 2, Len(s) - 3))
                      + ParseNat(SubSeq(s, Len(s) - 1, Len(s)))
         IN  [sign |-> s[1], value |-> IF s[1] = "-" THEN -mag ELSE mag]
    ELSE [sign |-> "none", value |-> 0]

\* #+N or #N: whether the sign is shown, and N
ReadMate(s) ==
    IF Len(s) >= 3 /\ s[1] = "#" /\ s[2] = "+" /\ IsNumeral(SubSeq(s, 3, Len(s)))
    THEN [form |-> "signed", n |-> ParseNat(SubSeq(s, 3, Len(s)))]
    ELSE IF Len(s) >= 2 /\ s[1] = "#" /\ IsNumeral(SubSeq(s, 2, Len(s)))
    THEN [form |-> "bare", n |-> ParseNat(SubSeq(s, 2, Len(s)))]
    ELSE [form |-> "none", n |-> 0]

----------------------------------------------------------------------------
(* Claims *)

\* C1: two calls of the evaluation function in sequence with the same
\* (FEN, variation-count, depth) key, the remote source answering the first with
\* HTTP 200 and valid JSON, issue exactly one remote request: the first call
\* issues one, the second none and returns the record the first returned.
C1_SecondCallCacheServed ==
    \A i \in 1..(Len(callLog) - 1) :
        LET first == callLog[i]
            second == callLog[i + 1]
        IN  (first.key = second.key /\ Is200Json(first.answer)) =>
                /\ first.requests = 1
                /\ second.requests = 0
                /\ second.result = first.result

C1_Witness ==
    /\ program = "server"
    /\ Len(callLog) >= 2
    /\ callLog[1].key = callLog[2].key
    /\ callLog[1].answer = Http(200, JsonObject(<<PV_CP20>>))
    /\ callLog[2].result.eval = Num(20)
    /\ Len(remoteLog) = 1

\* the request of the call failed: timeout, no connection, a status other
\* than 200, or a body that does not decode
RequestFailed(a) ==
    \/ a.kind \in {"Timeout", "ConnectionError"}
    \/ a.kind = "http" /\ (a.status # 200 \/ a.body.json = "invalid")

\* C2: when the remote request of _get_position_evaluation fails, the call
\* still returns a record, marked fallback, whose eval is a number.
C2_FailureYieldsFallback ==
    program = "server" =>
        \A i \in 1..Len(callLog) :
            RequestFailed(callLog[i].answer) =>
                /\ callLog[i].result.fallback
                /\ IsNum(callLog[i].result.eval)

C2_Witness ==
    /\ program = "server"
    /\ \E i \in 1..Len(callLog) :
          /\ callLog[i].key[1] = FEN_KP_W
          /\ callLog[i].answer = Timeout
          /\ callLog[i].result.fallback
          /\ callLog[i].result.eval = Num(110)

\* the failures the cache must not remember: all of RequestFailed but a 404
TransientFailure(a) ==
    RequestFailed(a) /\ ~(a.kind = "http" /\ a.status = 404)

\* C3: a remote call of _get_position_evaluation that fails (timeout,
\* connection error, status other than 200 and 404, malformed JSON) leaves no
\* cache entry for its FEN, and the next call for that FEN asks the remote
\* source again.
C3_FailuresNotCached ==
    program = "server" =>
        /\ (callLog # <<>> /\ TransientFailure(callLog[Len(callLog)].answer)) =>
               cache[callLog[Len(callLog)].key[1]] = NoEntry
        /\ \A i \in 1..(Len(callLog) - 1) :
               (callLog[i].key = callLog[i + 1].key
                    /\ TransientFailure(callLog[i].answer)) =>
                   callLog[i + 1].requests = 1

\* C4: for a FEN whose position is game-over, _get_position_evaluation issues
\* no remote request and returns a record flagged terminal, with no variations
\* and no best move.
C4_TerminalShortCircuit ==
    program = "server" =>
        /\ \A i \in 1..Len(callLog) :
               LET b == Board(callLog[i].key[1])
               IN  (b.valid /\ is_game_over(b)) =>
                       /\ callLog[i].requests = 0
                       /\ callLog[i].result.terminal
                       /\ callLog[i].result.variations = <<>>
                       /\ callLog[i].result.best_move = None
        /\ \A j \in 1..Len(remoteLog) : ~is_game_over(Board(remoteLog[j].fen))

C4_Witness ==
    /\ program = "server"
    /\ remoteLog = <<>>
    /\ \E i \in 1..Len(callLog) :
          /\ callLog[i].key[1] = FEN_MATED_W
          /\ callLog[i].result.terminal
          /\ callLog[i].result.eval = Str(<<"#", "-", "0">>)

\* cp alone: the top variation of the formatted input has a cp and no mate
CpAlone == fmtIn # None /\ fmtIn.eval_json.pvs # <<>>
               /\ fmtIn.eval_json.pvs[1].mate = None /\ fmtIn.eval_json.pvs[1].cp # None

BlackToMove == ~Board(fmtIn.fen).turn

\* C7: for an integer cp and no mate, format_eval renders the cp, negated when
\* Black is to move, in pawns with exactly two decimals and an explicit sign,
\* '+' for values >= 0 and '-' for negative values.
C7_CentipawnFormat ==
    CpAlone =>
        LET cp == fmtIn.eval_json.pvs[1].cp.v
            rel == IF BlackToMove THEN -cp ELSE cp
            shown == ReadCp(fmtOut.s)
        IN  /\ shown.sign = (IF rel >= 0 THEN "+" ELSE "-")
            /\ shown.value = rel
            /\ (cp = 100 /\ BlackToMove) => fmtOut.s = <<"-", "1", ".", "0", "0">>
            /\ (cp = -100 /\ BlackToMove) => fmtOut.s = <<"+", "1", ".", "0", "0">>
            /\ (cp = 250 /\ ~BlackToMove) => fmtOut.s = <<"+", "2", ".", "5", "0">>

C7_Witness ==
    /\ CpAlone
    /\ fmtIn.eval_json.pvs[1].cp.v = 100
    /\ BlackToMove
    /\ fmtOut.s = <<"-", "1", ".", "0", "0">>

MatePresent == fmtIn # None /\ fmtIn.eval_json.pvs # <<>>
                   /\ fmtIn.eval_json.pvs[1].mate # None

\* C8: for an integer mate, alone or beside a cp, format_eval renders the
\* mate, negated when Black is to move: "#+N" when that value is not negative,
\* "#N" when it is negative, N its magnitude.
C8_MateFormat ==
    MatePresent =>
        LET mate == fmtIn.eval_json.pvs[1].mate.v
            rel == IF BlackToMove THEN -mate ELSE mate
            shown == ReadMate(fmtOut.s)
        IN  /\ shown.form = (IF rel >= 0 THEN "signed" ELSE "bare")
            /\ shown.n = Abs(rel)
            /\ (mate = 3 /\ ~BlackToMove) => fmtOut.s = <<"#", "+", "3">>
            /\ (mate = -2 /\ BlackToMove) => fmtOut.s = <<"#", "+", "2">>

C8_Witness ==
    /\ MatePresent
    /\ fmtIn.eval_json.pvs[1].mate.v = -2
    /\ fmtIn.eval_json.pvs[1].cp # None
    /\ BlackToMove
    /\ fmtOut.s = <<"#", "+", "2">>

\* C9: the mate string of a record _get_position_evaluation builds from an
\* HTTP 200 answer equals what format_eval renders for the same body and
\* position.
C9_ServerMateMatchesFormatEval ==
    program = "server" =>
        \A i \in 1..Len(callLog) :
            LET c == callLog[i]
            IN  (c.answer.kind = "http" /\ c.answer.status = 200
                     /\ c.answer.body.json = "object" /\ c.answer.body.pvs # <<>>
                     /\ c.answer.body.pvs[1].mate # None) =>
                    c.result.eval = Str(format_eval(c.answer.body, Board(c.key[1])))

ConfigNote == <<T(" (Note: Set GROQ_API_KEY for AI analysis)")>>

\* C6: _get_groq_explanation never propagates an error, and when the client
\* is not configured, the completion call raises, the response is malformed
\* or the response has no content, it returns the templated sentence of
\* _get_llm_explanation for the same record (after an unconfigured client,
\* that sentence with the fixed configuration note behind it).
C6_GroqFallsBackToTemplate ==
    groqIn # None =>
        LET template == _get_llm_explanation(FEN_KP_W, 1, groqIn.evaluation)
        IN  /\ ~groqOut.raised
            /\ ~groqIn.configured =>
                   groqOut.returned \in {template, template \o ConfigNote}
            /\ (groqIn.configured /\ groqOut.llm_requests = 1 /\ LlmFailed(groqIn.answer)) =>
                   groqOut.returned = template

\* index of the first token that is not playable where the replay stands, or 0
FirstUnplayable(uci_moves) ==
    IF \E k \in 1..Len(uci_moves) : ~Playable(uci_moves[k])
    THEN CHOOSE k \in 1..Len(uci_moves) :
             /\ ~Playable(uci_moves[k])
             /\ \A j \in 1..(k - 1) : Playable(uci_moves[j])
    ELSE 0

\* C10: when token k is the first that is not playable in the replay
\* position, uci_moves_to_san_list returns exactly the notation of the k-1
\* moves before it (stated for k-1 within max_moves, where the cap plays no part).
C10_TruncatesAtFirstUnplayable ==
    (sanIn # None /\ sanLoop.pc = "return") =>
        LET k == FirstUnplayable(sanIn.uci_moves)
        IN  (k > 0 /\ k - 1 <= sanIn.max_moves) =>
                sanLoop.san_list = [j \in 1..(k - 1) |-> Notation(j)]

\* C5: a malformed FEN is surfaced as an explicit error: what
\* analyze_single_move returns carries an error marker, /explore_variation
\* answers with an error status, and neither issues a remote request nor
\* writes to the evaluation cache.
C5_MalformedFenSurfaced ==
    \A i \in 1..Len(apiLog) :
        LET call == apiLog[i]
        IN  ~Board(call.fen).valid =>
                /\ call.requests = 0
                /\ ~call.cache_changed
                /\ call.op = "analyze_single_move" => "error" \in DOMAIN call.returned
                /\ call.op = "explore_variation" => call.status >= 400

\* the tokens of the first source, in the order of preference "moves" as a
\* string, "moves" as a list, "pv" as a string, that holds any token
PreferredTokens(pv) ==
    LET fromMoves == IF pv.moves.k = "str" THEN pv.moves.words
                     ELSE IF pv.moves.k = "list" THEN ItemTokens(pv.moves.items)
                     ELSE <<>>
    IN  IF fromMoves # <<>> THEN fromMoves
        ELSE IF pv.pv.k = "str" THEN pv.pv.words
        ELSE <<>>

\* C11: both token extractors return the tokens of the preferred source that
\* has any, in their order, without the tokens shorter than 4 characters; a
\* payload whose only move text is under "pv" yields the tokens of "pv".
C11_ExtractorPreference ==
    extIn # None => extOut = SelectSeq(PreferredTokens(extIn.pv), LongEnough)

\* the call got an HTTP 200 answer whose body is an object with principal variations
AnsweredWithPvs(call) ==
    /\ Is200Json(call.answer)
    /\ call.answer.body.json = "object"
    /\ call.answer.body.pvs # <<>>

\* C12: in a record built from an HTTP 200 answer, best_move is the first
\* move token of pvs[0] when pvs[0] has moves and is absent otherwise; it is
\* never taken from a lower-ranked variation.
C12_BestMoveFromTopVariation ==
    program = "server" =>
        \A i \in 1..Len(callLog) :
            LET call == callLog[i]
                top == _extract_moves_from_pv(call.answer.body.pvs[1])
            IN  AnsweredWithPvs(call) =>
                    call.result.best_move = IF top # <<>> THEN Str(top[1]) ELSE None

\* the call got an HTTP 200 answer whose body is an object without principal variations
AnsweredWithoutData(call) ==
    /\ Is200Json(call.answer)
    /\ call.answer.body.json = "object"
    /\ call.answer.body.pvs = <<>>

\* C13: when the remote source answers HTTP 200 with no data (pvs absent or
\* empty), the returned record is marked fallback and its eval is a number.
C13_NoDataYieldsFallback ==
    program = "server" =>
        \A i \in 1..Len(callLog) :
            AnsweredWithoutData(callLog[i]) =>
                /\ callLog[i].result.fallback
                /\ IsNum(callLog[i].result.eval)

\* the score the terminal rule assigns to a game-over position
TerminalScore(b) ==
    IF b.checkmate
    THEN IF b.turn = WHITE THEN Str(<<"#", "-", "0">>) ELSE Str(<<"#", "+", "0">>)
    ELSE Num(0)

\* C14: for every game-over position the eval is "#-0" when White is mated,
\* "#+0" when Black is mated and 0.0 for a stalemate, insufficient material,
\* the 75-move rule or fivefold repetition; it is never None.
C14_TerminalScores ==
    program = "server" =>
        \A i \in 1..Len(callLog) :
            LET b == Board(callLog[i].key[1])
            IN  (b.valid /\ is_game_over(b)) =>
                    /\ callLog[i].result.eval = TerminalScore(b)
                    /\ callLog[i].result.eval # None

C14_Witness ==
    /\ program = "server"
    /\ \E i, j \in 1..Len(callLog) :
          /\ callLog[i].key[1] = FEN_MATED_B
          /\ callLog[i].result.eval = Str(<<"#", "+", "0">>)
          /\ callLog[j].key[1] \in {FEN_STALEMATE, FEN_BARE_KINGS, FEN_75_MOVES}
          /\ callLog[j].result.eval = Num(0)

\* the fixed sentence for a terminal record: checkmate for a mate score, draw otherwise
OutcomeSentence(evaluation) ==
    IF IsStr(evaluation.eval)
    THEN T("Checkmate position reached.")
    ELSE T("Game ended in a draw (stalemate, insufficient material, or repetition).")

\* C15: for a record flagged terminal the commentary generator issues no
\* language-model request and returns the fixed sentence that names checkmate
\* or draw, whether or not the client is configured.
C15_TerminalCommentary ==
    (groqIn # None /\ groqIn.evaluation.terminal) =>
        /\ groqOut.llm_requests = 0
        /\ groqOut.returned # <<>>
        /\ Head(groqOut.returned) = OutcomeSentence(groqIn.evaluation)

\* the opening words of the band the five-band rule assigns to a score
\* (hundredths of a pawn)
Band(v) ==
    IF v >= 200 THEN T("White has a significant advantage (+")
    ELSE IF v =< -200 THEN T("Black has a significant advantage (")
    ELSE IF v > 50 THEN T("White is slightly better (+")
    ELSE IF v < -50 THEN T("Black is slightly better (")
    ELSE T("Position is roughly equal (")

\* C16: the templated explanation puts every numeric score s in the band
\* s >= +2.0 significant White, s <= -2.0 significant Black, +0.5 < s < +2.0
\* White slightly better, -2.0 < s < -0.5 Black slightly better, else
\* roughly equal; +2.0 and -2.0 are in the significant-advantage bands.
C16_FiveBands ==
    (groqIn # None /\ ~groqIn.evaluation.terminal /\ IsNum(groqIn.evaluation.eval)) =>
        Head(groqOut.returned) = Band(groqIn.evaluation.eval.v)

----------------------------------------------------------------------------
(* Concurrent runs of the evaluation function on the shared cache. A cli run
   is fetch_lichess_eval_json taken statement by statement: it can be
   suspended while it waits for CACHE_LOCK and at its await. A server run is
   _get_position_evaluation, which has no await and runs as one step of the
   event loop. *)

ConcFens == {FEN_KP_W, FEN_KP_B}
ConcAnswers == {Timeout, Http(200, JsonObject(<<PV_CP20>>)), Http(200, JsonObject(<<PV_MATE3>>))}

NoResult == [tag |-> "none"]

\* a run that has just been called on fen
NewRun(prog, fen) ==
    [pc |-> IF prog = "cli" THEN "L88" ELSE "L126", fen |-> fen,
     cached |-> NoEntry, result |-> NoResult]

\* one access of the cache by a run
CacheGet(run, key, value) == [op |-> "get", run |-> run, key |-> key, value |-> value]
CachePut(run, key, value) == [op |-> "put", run |-> run, key |-> key, value |-> value]

InitConc ==
    /\ program \in {"server", "cli"}
    /\ pipelineIdle
    /\ coreIdle /\ extractIdle /\ reviewIdle /\ moveIdle /\ gameIdle
    /\ runs = <<>>
    /\ CACHE_LOCK = 0
    /\ lookupLog = <<>>

concRest == <<cache, EVAL_CACHE, remoteLog, callLog, cliCall, formatVars, sanVars,
              groqVars, apiVars, extractVars, reviewVars, moveVars, gameVars>>

\* a caller calls the evaluation function while other runs are under way
BeginRun(fen) ==
    /\ Len(runs) < MaxRuns
    /\ runs' = Append(runs, NewRun(program, fen))
    /\ UNCHANGED <<program, CACHE_LOCK, lookupLog, concRest>>

\* cli, line 88: "with CACHE_LOCK:" is entered once the lock is free
CliLockForLookup(r) ==
    /\ program = "cli"
    /\ runs[r].pc = "L88"
    /\ CACHE_LOCK = 0
    /\ CACHE_LOCK' = r
    /\ runs' = [runs EXCEPT ![r].pc = "L89"]
    /\ UNCHANGED <<program, lookupLog, concRest>>

\* cli, lines 89-91: the lookup; leaving the with block releases the lock,
\* and a hit is returned
CliLookup(r) ==
    /\ program = "cli"
    /\ runs[r].pc = "L89"
    /\ \E cached \in {EVAL_CACHE[cache_key(runs[r].fen, 3)]} :
         /\ lookupLog' = Append(lookupLog, CacheGet(r, cache_key(runs[r].fen, 3), cached))
         /\ runs' = [runs EXCEPT ![r].cached = cached,
                                 ![r].result = IF cached # NoEntry THEN cached ELSE NoResult,
                                 ![r].pc = IF cached # NoEntry THEN "done" ELSE "L94"]
    /\ CACHE_LOCK' = 0
    /\ UNCHANGED <<program, concRest>>

\* cli, lines 94-108: the awaited request ends; line 110 decides whether the
\* result is to be stored
CliAwaitRequest(r, answer) ==
    /\ program = "cli"
    /\ runs[r].pc = "L94"
    /\ remoteLog' = Append(remoteLog, [fen |-> runs[r].fen, multiPv |-> 3,
                                       depth |-> SEARCH_DEPTH])
    /\ \E result \in {FetchResult(answer)} :
         runs' = [runs EXCEPT ![r].result = result,
                              ![r].pc = IF ENABLE_EVAL_CACHE /\ result.tag # "error"
                                        THEN "L111" ELSE "done"]
    /\ UNCHANGED <<program, CACHE_LOCK, lookupLog, cache, EVAL_CACHE, callLog, cliCall,
                   formatVars, sanVars, groqVars, apiVars, extractVars, reviewVars,
                   moveVars, gameVars>>

\* cli, line 111: "with CACHE_LOCK:" is entered once the lock is free
CliLockForStore(r) ==
    /\ program = "cli"
    /\ runs[r].pc = "L111"
    /\ CACHE_LOCK = 0
    /\ CACHE_LOCK' = r
    /\ runs' = [runs EXCEPT ![r].pc = "L112"]
    /\ UNCHANGED <<program, lookupLog, concRest>>

\* cli, lines 112-114: the result is stored, the lock released, the result returned
CliStore(r) ==
    /\ program = "cli"
    /\ runs[r].pc = "L112"
    /\ EVAL_CACHE' = eval_cache_put(EVAL_CACHE, cache_key(runs[r].fen, 3), runs[r].result)
    /\ lookupLog' = Append(lookupLog,
                           CachePut(r, cache_key(runs[r].fen, 3), runs[r].result))
    /\ CACHE_LOCK' = 0
    /\ runs' = [runs EXCEPT ![r].pc = "done"]
    /\ UNCHANGED <<program, cache, remoteLog, callLog, cliCall, formatVars, sanVars,
                   groqVars, apiVars, extractVars, reviewVars, moveVars, gameVars>>

\* server, lines 123-216: the whole method between two suspension points of
\* the event loop
ServerRun(r, answer) ==
    /\ program = "server"
    /\ runs[r].pc = "L126"
    /\ \E out \in {_get_position_evaluation(cache, runs[r].fen, answer)} :
         /\ cache' = out.cache
         /\ remoteLog' = remoteLog \o out.requests
         /\ lookupLog' = lookupLog \o <<CacheGet(r, runs[r].fen, cache[runs[r].fen])>>
                             \o (IF cache[runs[r].fen] = NoEntry /\ Board(runs[r].fen).valid
                                 THEN <<CachePut(r, runs[r].fen, out.result)>> ELSE <<>>)
         /\ runs' = [runs EXCEPT ![r].cached = cache[runs[r].fen],
                                 ![r].result = out.result, ![r].pc = "done"]
    /\ UNCHANGED <<program, CACHE_LOCK, EVAL_CACHE, callLog, cliCall, formatVars, sanVars,
                   groqVars, apiVars, extractVars, reviewVars, moveVars, gameVars>>

NextConc ==
    \/ \E fen \in ConcFens : BeginRun(fen)
    \/ \E r \in 1..Len(runs) : CliLockForLookup(r)
    \/ \E r \in 1..Len(runs) : CliLookup(r)
    \/ \E r \in 1..Len(runs), answer \in ConcAnswers : CliAwaitRequest(r, answer)
    \/ \E r \in 1..Len(runs) : CliLockForStore(r)
    \/ \E r \in 1..Len(runs) : CliStore(r)
    \/ \E r \in 1..Len(runs), answer \in ConcAnswers : ServerRun(r, answer)

SpecConc == InitConc /\ [][NextConc]_vars

\* place of a step in the order cache check, remote request, fallback
\* evaluation, commentary request (then the templated sentence)
StepRank(step) ==
    CASE step = "cache_check" -> 1
      [] step = "remote_request" -> 2
      [] step = "fallback" -> 3
      [] step = "commentary_request" -> 4
      [] OTHER -> 5

\* C17: one run of analyze_single_move makes at most one remote evaluation
\* request and at most one language-model call (counted at requests.get and
\* chat.completions.create), its steps come in the order cache check, remote
\* request, fallback evaluation, commentary request, and no step is taken
\* twice: a failed call is followed by fallback or template, never re-issued.
C17_OneRequestPerRun ==
    \A i \in 1..Len(apiLog) :
        LET call == apiLog[i]
        IN  call.op = "analyze_single_move" =>
                /\ call.requests =< 1
                /\ call.llm_requests =< 1
                /\ call.trace # <<>> /\ call.trace[1] = "cache_check"
                /\ \A j, k \in 1..Len(call.trace) :
                       j < k => StepRank(call.trace[j]) < StepRank(call.trace[k])

C17_Witness ==
    \E i \in 1..Len(apiLog) :
        /\ apiLog[i].op = "analyze_single_move"
        /\ apiLog[i].requests = 1
        /\ apiLog[i].llm_requests = 1
        /\ apiLog[i].trace = <<"cache_check", "remote_request", "fallback",
                               "commentary_request", "template">>

\* the value the last completed write of key before position n of the log
\* left in the cache, NoEntry if there was none
LastPut(log, key, n) ==
    LET puts == {i \in 1..(n - 1) : log[i].op = "put" /\ log[i].key = key}
    IN  IF puts = {} THEN NoEntry
        ELSE log[CHOOSE i \in puts : \A j \in puts : j =< i].value

\* C18: the evaluation cache is safe under concurrent runs: a cli run touches
\* EVAL_CACHE only while it holds CACHE_LOCK, and at most one run holds it;
\* every lookup sees exactly the whole value the last completed write of its
\* key stored (nothing before the first write): no partial entry is read and
\* a completed write is seen by every later lookup of the key.
C18_CacheSafeUnderConcurrency ==
    /\ \A r \in 1..Len(runs) : runs[r].pc \in {"L89", "L112"} => CACHE_LOCK = r
    /\ \A n \in 1..Len(lookupLog) :
          lookupLog[n].op = "get" =>
              lookupLog[n].value = LastPut(lookupLog, lookupLog[n].key, n)

\* a run looked a key up after another run's write of it had completed, and
\* was served the stored value
C18_Witness ==
    \E i, n \in 1..Len(lookupLog) :
        /\ i < n
        /\ lookupLog[i].op = "put" /\ lookupLog[n].op = "get"
        /\ lookupLog[i].key = lookupLog[n].key
        /\ lookupLog[i].run # lookupLog[n].run
        /\ lookupLog[n].value = lookupLog[i].value

----------------------------------------------------------------------------
(* CloudReviews.run: the interactive review loop. A position is named by how
   the loop reaches it: the pre-move board of ply idx, or the board inside a
   variation of that ply after some of its moves. The events are the remote
   evaluation requests actually sent and the asyncio.sleep(0.1) calls. *)

SKIP_BOOK_MOVES == 6

MainPos(idx) == <<"ply", idx, 0, 0>>
\* temp in analyse_variation_from before variation move i: pre_board.copy()
\* with i - 1 moves pushed
VarPos(idx, varnum, i) == IF i = 1 THEN MainPos(idx) ELSE <<"var", idx, varnum, i>>

\* uci lists the extractor can hand back: each token either parses as a move
\* or is unknown to both Move.from_uci and parse_san
VariationLines == {<<>>, <<"move", "move">>, <<"move", "unknown">>}
\* the pvs of one position
ReviewPvs == {<<>>} \cup {<<l>> : l \in VariationLines}
                 \cup {<<<<"move">>, <<"move", "move">>>>}

\* plies of the reviewed game: none, only book plies, one or two plies beyond
GameLengths == {0, SKIP_BOOK_MOVES, SKIP_BOOK_MOVES + 1, SKIP_BOOK_MOVES + 2}

\* what the remote source answers to one request of the loop
ReviewAnswers == {[tag |-> "error", pvs |-> <<>>]}
                     \cup {[tag |-> "json", pvs |-> p] : p \in ReviewPvs}

\* fetch_lichess_eval_json as the loop sees it: a cached result is returned
\* without a request; otherwise one request is sent and a result without
\* "error" is stored
review_fetch(cached, pos, answer) ==
    IF \E e \in cached : e.pos = pos
    THEN [result |-> (CHOOSE e \in cached : e.pos = pos).result, cached |-> cached,
          events |-> <<>>]
    ELSE [result |-> answer,
          cached |-> IF ENABLE_EVAL_CACHE /\ answer.tag # "error"
                     THEN cached \cup {[pos |-> pos, result |-> answer]} ELSE cached,
          events |-> <<"request">>]

\* the commands typed at the prompt of the main loop
ReviewCommands ==
    {[c |-> "enter", n |-> 0], [c |-> "q", n |-> 0], [c |-> "unknown", n |-> 0],
     [c |-> "s", n |-> -1], [c |-> "l", n |-> -1]}
        \cup {[c |-> "s", n |-> n] : n \in {0, 1, SKIP_BOOK_MOVES + 1, SKIP_BOOK_MOVES + 3}}
        \cup {[c |-> "l", n |-> n] : n \in 1..2}

NoVariation == [varnum |-> 0, i |-> 0, uci_list |-> <<>>]

InitReview ==
    /\ program = "cli"
    /\ pipelineIdle
    /\ coreIdle /\ extractIdle /\ concIdle /\ moveIdle /\ gameIdle
    /\ \E total \in GameLengths :
         review = [pc |-> IF total >= 1 THEN "top" ELSE "done", idx |-> 1, total |-> total,
                   variations_output |-> [bound |-> FALSE, lists |-> <<>>],
                   cached |-> {}, events |-> <<>>, prompts |-> 0, var |-> NoVariation]

reviewRest == <<pipelineVars, formatVars, sanVars, groqVars, apiVars, extractVars,
                concVars, moveVars, gameVars>>

\* lines 305-382: one pass of the while loop up to the prompt: the pre-move
\* position is evaluated unless idx is one of the first SKIP_BOOK_MOVES plies
ReviewMove(answer) ==
    /\ review # None /\ review.pc = "top"
    /\ IF review.idx =< SKIP_BOOK_MOVES
       THEN review' = [review EXCEPT !.pc = "prompt"]
       ELSE \E pve \in {review_fetch(review.cached, MainPos(review.idx), answer)} :
                review' = [review EXCEPT
                              !.pc = "prompt",
                              !.cached = pve.cached,
                              !.events = @ \o pve.events,
                              !.variations_output =
                                  [bound |-> TRUE,
                                   lists |-> IF pve.result.tag = "error" THEN <<>>
                                             ELSE pve.result.pvs]]
    /\ UNCHANGED reviewRest

\* lines 388-425: the command read at the prompt; after end of input every
\* input() gives the empty command
ReviewPrompt(cmd) ==
    /\ review # None /\ review.pc = "prompt"
    /\ review.prompts < MaxPrompts \/ cmd.c = "enter"
    /\ LET asked == [review EXCEPT !.prompts = IF @ < MaxPrompts THEN @ + 1 ELSE @]
           next == [asked EXCEPT !.idx = @ + 1, !.pc = "sleep"]
       IN  review' =
             CASE cmd.c = "enter" -> next
               [] cmd.c = "q" -> [asked EXCEPT !.pc = "done"]
               [] cmd.c = "s" ->
                    IF cmd.n >= 1 /\ cmd.n =< review.total
                    THEN [asked EXCEPT !.idx = cmd.n, !.pc = "sleep"]
                    ELSE next
               [] cmd.c = "l" ->
                    IF cmd.n = -1 THEN [asked EXCEPT !.pc = "sleep"]
                    ELSE IF ~review.variations_output.bound
                    THEN [asked EXCEPT !.pc = "crashed"]
                    ELSE IF cmd.n > Len(review.variations_output.lists)
                    THEN [asked EXCEPT !.pc = "sleep"]
                    ELSE IF review.variations_output.lists[cmd.n] = <<>>
                    THEN [asked EXCEPT !.pc = "sleep"]
                    ELSE [asked EXCEPT
                             !.pc = "var",
                             !.var = [varnum |-> cmd.n, i |-> 1,
                                      uci_list |-> review.variations_output.lists[cmd.n]]]
               [] OTHER -> next
    /\ UNCHANGED reviewRest

\* lines 258-299: one pass of the for loop of analyse_variation_from: the
\* position before variation move i is evaluated, the move pushed, and the
\* user asked whether to go on
VariationMove(answer, cmd) ==
    /\ review # None /\ review.pc = "var"
    /\ cmd \in {"enter", "q"}
    /\ review.prompts < MaxPrompts \/ cmd = "enter"
    /\ IF review.var.uci_list[review.var.i] = "unknown"
       THEN review' = [review EXCEPT !.pc = "sleep", !.var = NoVariation]
       ELSE \E pve \in {review_fetch(review.cached,
                                     VarPos(review.idx, review.var.varnum, review.var.i),
                                     answer)} :
                review' = [review EXCEPT
                              !.cached = pve.cached,
                              !.events = @ \o pve.events,
                              !.prompts = IF @ < MaxPrompts THEN @ + 1 ELSE @,
                              !.pc = IF cmd = "q" \/ review.var.i = Len(review.var.uci_list)
                                     THEN "sleep" ELSE "var",
                              !.var = IF cmd = "q" \/ review.var.i = Len(review.var.uci_list)
                                      THEN NoVariation
                                      ELSE [review.var EXCEPT !.i = @ + 1]]
    /\ UNCHANGED reviewRest

\* line 428: await asyncio.sleep(0.1), then the while condition
ReviewSleep ==
    /\ review # None /\ review.pc = "sleep"
    /\ review' = [review EXCEPT !.events = Append(@, "sleep"),
                                !.pc = IF review.idx =< review.total THEN "top" ELSE "done"]
    /\ UNCHANGED reviewRest

NextReview ==
    \/ \E answer \in ReviewAnswers : ReviewMove(answer)
    \/ \E cmd \in ReviewCommands : ReviewPrompt(cmd)
    \/ \E answer \in ReviewAnswers, cmd \in {"enter", "q"} : VariationMove(answer, cmd)
    \/ ReviewSleep

SpecReview == InitReview /\ [][NextReview]_vars

\* C19: in the review loop, between any two successive remote evaluation
\* requests there is a 0.1 second sleep, also while stepping through a
\* variation in analyse_variation_from.
C19_DelayBetweenEvaluations ==
    review # None =>
        \A i, j \in 1..Len(review.events) :
            (i < j /\ review.events[i] = "request" /\ review.events[j] = "request")
                => \E k \in (i + 1)..(j - 1) : review.events[k] = "sleep"

----------------------------------------------------------------------------
(* POST /analyse_move (routes.analyze_move). The handler is suspended at its
   awaits on the database, so a second request can look the collection up
   before the first has stored its document. db.move_analysis_cache is the
   sequence of its documents in insertion order; find_one without a sort
   returns the first document that matches. *)

\* request.game_id: a stored game, a stored game whose PGN holds no game, a
\* well-formed id of no game, a string that is no ObjectId
MoveGameIds == {"game", "game_without_pgn", "missing", "invalid_id"}
\* db.games when the service starts
StoredGames == {"game", "game_without_pgn"}
\* the stored game: one move, 1.e5 from FEN_KP_W
GameMoves == <<"e5">>
MoveIndexes == {-1, 0, 1, 2}

\* chess_game.board(): the position the stored game starts from
GameStart == FEN_KP_W

\* "for i in range(n): board.push(moves[i])", then board.fen()
RECURSIVE PushMoves(_, _, _, _)
PushMoves(fen, moves, i, n) ==
    IF i > n THEN fen ELSE PushMoves(FenAfter(fen, moves[i]), moves, i + 1, n)

game_position_start(move_index) == GameStart

\* board.fen() after the first move_index moves of the stored game
GamePosition(move_index) == PushMoves(GameStart, GameMoves, 1, move_index)

MoveAnswers == {Timeout, Http(200, JsonObject(<<PV_CP20>>))}
MoveLlmAnswers == {LlmRaises, LlmText(FALSE)}

NoDocument == [game_id |-> "", move_index |-> 0, position_fen |-> "",
               evaluation |-> None, explanation |-> None, variations |-> <<>>]

\* cache_doc (created_at is not read back)
cache_doc(game_id, move_index, position_fen, analysis) ==
    [game_id |-> game_id, move_index |-> move_index, position_fen |-> position_fen,
     evaluation |-> analysis.eval, explanation |-> analysis.explanation,
     variations |-> analysis.variations]

MoveAnalysisResponse(eval, explanation, variations) ==
    [eval |-> eval, explanation |-> explanation, variations |-> variations]

NoResponse == [detail |-> "none"]
HTTPException(detail) == [detail |-> detail]

\* db.move_analysis_cache.find_one({"game_id": ..., "move_index": ...})
find_one(collection, game_id, move_index) ==
    LET found == {n \in 1..Len(collection) :
                     /\ collection[n].game_id = game_id
                     /\ collection[n].move_index = move_index}
    IN  IF found = {} THEN NoDocument
        ELSE collection[CHOOSE n \in found : \A k \in found : n =< k]

\* one request: its body, where the handler stands, the response, whether it
\* was answered from the collection, whether it stored a document, the
\* remote and language-model requests it made, the requests that had been
\* answered when it arrived, and whether db.games held the game then
MoveRequest(game_id, move_index, pc, status, response, from_cache, stored, requests, llm_requests, after, game_stored) ==
    [game_id |-> game_id, move_index |-> move_index, pc |-> pc, status |-> status,
     response |-> response, from_cache |-> from_cache, stored |-> stored,
     requests |-> requests, llm_requests |-> llm_requests, after |-> after,
     game_stored |-> game_stored]

Answered(log) == {i \in 1..Len(log) : log[i].pc = "done"}

InitMove ==
    /\ program = "server"
    /\ pipelineIdle
    /\ fmtIn = None /\ fmtOut = None
    /\ sanIn = None /\ sanLoop = SanIdle
    /\ groqIn = None /\ groqOut = None
    /\ groq_client \in BOOLEAN
    /\ llmLog = 0
    /\ apiLog = <<>>
    /\ extractIdle /\ concIdle /\ reviewIdle
    /\ move_analysis_cache = <<>>
    /\ moveLog = <<>>
    /\ games = StoredGames
    /\ analyses = <<>>
    /\ httpLog = <<>>

\* lines 190-209: a request arrives; the id is validated and the collection
\* looked up; a document found is answered at once
MoveLookup(game_id, move_index) ==
    /\ Len(moveLog) < MaxMoveRequests
    /\ \E cached_analysis \in {find_one(move_analysis_cache, game_id, move_index)} :
         moveLog' = Append(moveLog,
             IF game_id = "invalid_id"
             THEN MoveRequest(game_id, move_index, "done", 400,
                              HTTPException("Invalid game ID"), FALSE, FALSE, 0, 0,
                              Answered(moveLog), game_id \in games)
             ELSE IF cached_analysis # NoDocument
             THEN MoveRequest(game_id, move_index, "done", 200,
                              MoveAnalysisResponse(cached_analysis.evaluation,
                                                   cached_analysis.explanation,
                                                   cached_analysis.variations),
                              TRUE, FALSE, 0, 0, Answered(moveLog), game_id \in games)
             ELSE MoveRequest(game_id, move_index, "L212", 0, NoResponse, FALSE, FALSE,
                              0, 0, Answered(moveLog), game_id \in games))
    /\ UNCHANGED <<pipelineVars, formatVars, sanVars, groqVars, apiVars, extractVars,
                   concVars, reviewVars, move_analysis_cache, gameVars>>

\* lines 211-228: the game is fetched and the request refused if there is no
\* such game, no game in its PGN, or no such move
MoveRefuse(j) ==
    /\ moveLog[j].pc = "L212"
    /\ \/ moveLog[j].game_id # "game"
       \/ moveLog[j].game_id \notin games
       \/ moveLog[j].move_index < 0
       \/ moveLog[j].move_index > Len(GameMoves)
    /\ moveLog' = [moveLog EXCEPT
                      ![j].pc = "done",
                      ![j].status = IF moveLog[j].game_id \notin games THEN 404 ELSE 400,
                      ![j].response =
                          IF moveLog[j].game_id \notin games THEN HTTPException("Game not found")
                          ELSE IF moveLog[j].game_id = "game_without_pgn"
                          THEN HTTPException("Invalid PGN in stored game")
                          ELSE HTTPException("Invalid move index")]
    /\ UNCHANGED <<pipelineVars, formatVars, sanVars, groqVars, apiVars, extractVars,
                   concVars, reviewVars, move_analysis_cache, gameVars>>

\* lines 230-262: the position is analysed, the document inserted (a failed
\* insert is only printed) and the response returned
MoveAnalyse(j, answer, llm_answer, inserted) ==
    /\ moveLog[j].pc = "L212"
    /\ moveLog[j].game_id = "game" /\ moveLog[j].game_id \in games
    /\ moveLog[j].move_index >= 0 /\ moveLog[j].move_index =< Len(GameMoves)
    /\ \E r \in {analyze_single_move(cache, groq_client, moveLog[j].move_index,
                                      GamePosition(moveLog[j].move_index), None,
                                      answer, llm_answer)} :
         /\ cache' = r.cache
         /\ remoteLog' = remoteLog \o r.requests
         /\ llmLog' = llmLog + r.llm_requests
         /\ move_analysis_cache' =
                IF inserted
                THEN Append(move_analysis_cache,
                            cache_doc(moveLog[j].game_id, moveLog[j].move_index,
                                      GamePosition(moveLog[j].move_index), r.returned))
                ELSE move_analysis_cache
         /\ moveLog' = [moveLog EXCEPT
                           ![j].pc = "done", ![j].status = 200,
                           ![j].response = MoveAnalysisResponse(r.returned.eval,
                                                                r.returned.explanation,
                                                                r.returned.variations),
                           ![j].stored = inserted,
                           ![j].requests = Len(r.requests),
                           ![j].llm_requests = r.llm_requests]
    /\ UNCHANGED <<program, EVAL_CACHE, callLog, cliCall, formatVars, sanVars, groqVars,
                   groq_client, apiLog, extractVars, concVars, reviewVars, gameVars>>

NextMove ==
    \/ \E game_id \in MoveGameIds, move_index \in MoveIndexes : MoveLookup(game_id, move_index)
    \/ \E j \in 1..Len(moveLog) : MoveRefuse(j)
    \/ \E j \in 1..Len(moveLog), answer \in MoveAnswers, llm_answer \in MoveLlmAnswers,
            inserted \in BOOLEAN : MoveAnalyse(j, answer, llm_answer, inserted)

SpecMove == InitMove /\ [][NextMove]_vars

\* the same handler with fewer requests
NextMoveIndex ==
    \/ \E game_id \in MoveGameIds, move_index \in MoveIndexes :
          Len(moveLog) < MaxIndexRequests /\ MoveLookup(game_id, move_index)
    \/ \E j \in 1..Len(moveLog) : MoveRefuse(j)
    \/ \E j \in 1..Len(moveLog), answer \in MoveAnswers, llm_answer \in MoveLlmAnswers,
            inserted \in BOOLEAN : MoveAnalyse(j, answer, llm_answer, inserted)

SpecMoveIndex == InitMove /\ [][NextMoveIndex]_vars

\* request i was answered 200 after analysing and storing its document, and
\* request j for the same pair arrived after that answer
LaterRequest(i, j) ==
    /\ moveLog[i].pc = "done" /\ moveLog[i].status = 200 /\ moveLog[i].stored
    /\ moveLog[j].pc = "done"
    /\ i \in moveLog[j].after
    /\ moveLog[j].game_id = moveLog[i].game_id
    /\ moveLog[j].move_index = moveLog[i].move_index

\* C20: once POST /analyse_move has succeeded for (game_id, move_index) and
\* stored its result, every request for the pair that arrives later is
\* answered 200 from move_analysis_cache with no remote evaluation and no
\* language-model request, and its eval, explanation and variations equal
\* those of that response.
C20_LaterRequestsServedFromCache ==
    \A i, j \in 1..Len(moveLog) :
        LaterRequest(i, j) =>
            /\ moveLog[j].status = 200
            /\ moveLog[j].from_cache
            /\ moveLog[j].requests = 0 /\ moveLog[j].llm_requests = 0
            /\ moveLog[j].response = moveLog[i].response

----------------------------------------------------------------------------
(* The game endpoints of routes.py on the collections games, analyses and
   move_analysis_cache, with no authenticated user. A handler that writes
   after an await is taken in two steps, so that another request can run in
   between; a handler that only reads, or writes at once, is one step. *)

GameIds == {"game", "game_without_pgn", "missing", "invalid_id"}

\* ObjectId.is_valid(game_id)
ObjectIdIsValid(game_id) == game_id # "invalid_id"

\* chess.pgn.read_game(StringIO(game["pgn_content"])) returns a game
HasPgnGame(game_id) == game_id = "game"

\* an HTTP answer: status and detail (or message)
Answer(status, detail) == [status |-> status, detail |-> detail]

\* "except Exception as e: raise HTTPException(status_code=500, ...)": also
\* entered by an HTTPException raised in the try block
except_Exception(e) == Answer(500, e.detail)

\* the dict analyze_pgn / analyze_limited_positions build for one move
Analysis(move_number, evaluation, use_llm) ==
    [move_number |-> move_number, position_fen |-> GamePosition(move_number),
     evaluation |-> evaluation.eval, best_move |-> evaluation.best_move,
     variations |-> evaluation.variations,
     explanation |-> IF use_llm /\ evaluation.eval # None
                     THEN _get_llm_explanation(GamePosition(move_number), move_number,
                                               evaluation)
                     ELSE None]

\* the loop of analyze_pgn / analyze_limited_positions over the moves
\* numbered k..hi of the stored game
RECURSIVE analyze_positions(_, _, _, _, _)
analyze_positions(st, k, hi, use_llm, answer) ==
    IF k > hi THEN st
    ELSE CHOOSE out \in
           { analyze_positions(
                 [cache |-> ev.cache, requests |-> st.requests \o ev.requests,
                  analyses |-> Append(st.analyses, Analysis(k, ev.result, use_llm))],
                 k + 1, hi, use_llm, answer) :
               ev \in {_get_position_evaluation(st.cache, GamePosition(k), answer)} } : TRUE

analyze_pgn(c, game_id, use_llm, answer) ==
    IF ~HasPgnGame(game_id)
    THEN [raised |-> TRUE, cache |-> c, requests |-> <<>>, analyses |-> <<>>]
    ELSE [raised |-> FALSE] @@
         analyze_positions([cache |-> c, requests |-> <<>>, analyses |-> <<>>],
                           1, Len(GameMoves), use_llm, answer)

Max2(a, b) == IF a > b THEN a ELSE b
Min2(a, b) == IF a < b THEN a ELSE b

\* moves_to_analyze = range(max(1, start_move), min(len(all_moves) + 1, start_move + 3))
analyze_limited_positions(c, game_id, start_move, use_llm, answer) ==
    IF ~HasPgnGame(game_id)
    THEN [raised |-> TRUE, cache |-> c, requests |-> <<>>, analyses |-> <<>>]
    ELSE [raised |-> FALSE] @@
         analyze_positions([cache |-> c, requests |-> <<>>, analyses |-> <<>>],
                           Max2(1, start_move),
                           Min2(Len(GameMoves) + 1, start_move + 3) - 1, use_llm, answer)

\* the document stored for one analysis (created_at left out)
analysis_doc(game_id, analysis) ==
    [game_id |-> game_id, move_number |-> analysis.move_number,
     position_fen |-> analysis.position_fen, evaluation |-> analysis.evaluation,
     best_move |-> analysis.best_move, variations |-> analysis.variations,
     explanation |-> analysis.explanation]

\* db.analyses.find({"game_id": game_id})
AnalysesOf(collection, game_id) ==
    SelectSeq(collection, LAMBDA d : d.game_id = game_id)

\* AnalysisResponse(...) validates: evaluation is Optional[float]
AnalysisResponseValid(doc) == ~IsStr(doc.evaluation)

\* the comment loop of export_annotated_pgn runs without an exception:
\* f"{analysis['evaluation']:.2f}" and "> 0" need a number
ExportCommentValid(doc) ==
    doc.move_number \in 1..Len(GameMoves) => ~IsStr(doc.evaluation)

\* one request to a game endpoint
GameRequest(handler, game_id, pc, answer, docs, use_llm) ==
    [handler |-> handler, game_id |-> game_id, pc |-> pc, answer |-> answer,
     docs |-> docs, use_llm |-> use_llm]

NoAnswerYet == Answer(0, "")

GameRequests == Len(httpLog) + Len(moveLog)

InitGames ==
    /\ program = "server"
    /\ pipelineIdle
    /\ coreIdle
    /\ extractIdle /\ concIdle /\ reviewIdle /\ moveIdle
    /\ games = StoredGames
    /\ analyses = <<>>
    /\ httpLog = <<>>

gamesRest == <<program, EVAL_CACHE, callLog, cliCall, formatVars, sanVars, groqVars,
               apiVars, extractVars, concVars, reviewVars, moveVars>>

\* the checks every game handler begins with: 400 for a malformed id, 404
\* for an unknown game, both raised inside the handler's try block
IdAndGameCheck(game_id) ==
    IF ~ObjectIdIsValid(game_id) THEN except_Exception(Answer(400, "Invalid game ID"))
    ELSE IF game_id \notin games THEN except_Exception(Answer(404, "Game not found"))
    ELSE NoAnswerYet

\* analyze_game, lines 277-291: up to the look for an existing analysis
AnalyzeBegin(game_id, use_llm) ==
    /\ GameRequests < MaxGameRequests
    /\ httpLog' = Append(httpLog,
          IF IdAndGameCheck(game_id) # NoAnswerYet
          THEN GameRequest("analyze", game_id, "done", IdAndGameCheck(game_id), <<>>, use_llm)
          ELSE IF AnalysesOf(analyses, game_id) # <<>>
          THEN GameRequest("analyze", game_id, "done", Answer(200, "Game already analyzed"),
                           <<>>, use_llm)
          ELSE GameRequest("analyze", game_id, "L294", NoAnswerYet, <<>>, use_llm))
    /\ UNCHANGED <<cache, remoteLog, games, analyses, gamesRest>>

\* analyze_game, lines 293-317: the analysis and insert_many
AnalyzeStore(j, answer) ==
    /\ httpLog[j].handler = "analyze" /\ httpLog[j].pc = "L294"
    /\ \E r \in {analyze_pgn(cache, httpLog[j].game_id, httpLog[j].use_llm, answer)} :
         /\ cache' = r.cache
         /\ remoteLog' = remoteLog \o r.requests
         /\ \E docs \in {[n \in 1..Len(r.analyses) |->
                            analysis_doc(httpLog[j].game_id, r.analyses[n])]} :
              /\ analyses' = analyses \o docs
              /\ httpLog' = [httpLog EXCEPT
                                ![j].pc = "done",
                                ![j].docs = docs,
                                ![j].answer =
                                    IF r.raised
                                    THEN except_Exception(Answer(0, "Invalid PGN content"))
                                    ELSE Answer(200, "Analysis completed")]
    /\ UNCHANGED <<games, gamesRest>>

\* analyze_game_limited, lines 331-366: the analysis and the look for an
\* existing document of each move
LimitedBegin(game_id, start_move, use_llm, answer) ==
    /\ GameRequests < MaxGameRequests
    /\ IF IdAndGameCheck(game_id) # NoAnswerYet
       THEN /\ httpLog' = Append(httpLog,
                   GameRequest("analyze_limited", game_id, "done",
                               IdAndGameCheck(game_id), <<>>, use_llm))
            /\ UNCHANGED <<cache, remoteLog>>
       ELSE \E r \in {analyze_limited_positions(cache, game_id, start_move, use_llm,
                                                answer)} :
              /\ cache' = r.cache
              /\ remoteLog' = remoteLog \o r.requests
              /\ httpLog' = Append(httpLog,
                    IF r.raised
                    THEN GameRequest("analyze_limited", game_id, "done",
                                     except_Exception(Answer(0, "Invalid PGN content")),
                                     <<>>, use_llm)
                    ELSE GameRequest("analyze_limited", game_id, "L368", NoAnswerYet,
                             SelectSeq([n \in 1..Len(r.analyses) |->
                                           analysis_doc(game_id, r.analyses[n])],
                                       LAMBDA d :
                                           \A n \in 1..Len(analyses) :
                                               ~(analyses[n].game_id = game_id
                                                 /\ analyses[n].move_number = d.move_number)),
                             use_llm))
    /\ UNCHANGED <<games, analyses, gamesRest>>

\* analyze_game_limited, lines 368-375: insert_many of the new documents
LimitedStore(j) ==
    /\ httpLog[j].handler = "analyze_limited" /\ httpLog[j].pc = "L368"
    /\ analyses' = analyses \o httpLog[j].docs
    /\ httpLog' = [httpLog EXCEPT ![j].pc = "done",
                                  ![j].answer = Answer(200, "Limited analysis completed")]
    /\ UNCHANGED <<cache, remoteLog, games, gamesRest>>

\* get_game, lines 421-455
GetGame(game_id) ==
    /\ GameRequests < MaxGameRequests
    /\ httpLog' = Append(httpLog,
          GameRequest("get_game", game_id, "done",
                      IF IdAndGameCheck(game_id) # NoAnswerYet THEN IdAndGameCheck(game_id)
                      ELSE Answer(200, "GameResponse"), <<>>, FALSE))
    /\ UNCHANGED <<cache, remoteLog, games, analyses, gamesRest>>

\* get_game_analysis, lines 460-484: no look at db.games
GetGameAnalysis(game_id) ==
    /\ GameRequests < MaxGameRequests
    /\ httpLog' = Append(httpLog,
          GameRequest("get_analysis", game_id, "done",
                      IF ~ObjectIdIsValid(game_id)
                      THEN except_Exception(Answer(400, "Invalid game ID"))
                      ELSE IF \E n \in 1..Len(analyses) :
                                  /\ analyses[n].game_id = game_id
                                  /\ ~AnalysisResponseValid(analyses[n])
                      THEN except_Exception(Answer(0, "ValidationError"))
                      ELSE Answer(200, "List[AnalysisResponse]"),
                      AnalysesOf(analyses, game_id), FALSE))
    /\ UNCHANGED <<cache, remoteLog, games, analyses, gamesRest>>

\* delete_game, lines 489-504
DeleteGame(game_id) ==
    /\ GameRequests < MaxGameRequests
    /\ httpLog' = Append(httpLog,
          GameRequest("delete", game_id, "done",
                      IF IdAndGameCheck(game_id) # NoAnswerYet THEN IdAndGameCheck(game_id)
                      ELSE Answer(200, "Game and analysis deleted successfully"),
                      <<>>, FALSE))
    /\ games' = games \ {game_id}
    /\ analyses' = IF ObjectIdIsValid(game_id) /\ game_id \in games
                   THEN SelectSeq(analyses, LAMBDA d : d.game_id # game_id)
                   ELSE analyses
    /\ UNCHANGED <<cache, remoteLog, gamesRest>>

\* export_annotated_pgn, lines 539-620
ExportPgn(game_id) ==
    /\ GameRequests < MaxGameRequests
    /\ httpLog' = Append(httpLog,
          GameRequest("export", game_id, "done",
                      IF IdAndGameCheck(game_id) # NoAnswerYet THEN IdAndGameCheck(game_id)
                      ELSE IF ~HasPgnGame(game_id)
                      THEN except_Exception(Answer(400, "Invalid PGN in stored game"))
                      ELSE IF \E n \in 1..Len(analyses) :
                                  /\ analyses[n].game_id = game_id
                                  /\ ~ExportCommentValid(analyses[n])
                      THEN except_Exception(Answer(0, "TypeError"))
                      ELSE Answer(200, "pgn"),
                      AnalysesOf(analyses, game_id), FALSE))
    /\ UNCHANGED <<cache, remoteLog, games, analyses, gamesRest>>

GameAnswers == {Timeout, Http(200, JsonObject(<<PV_MATE3>>))}

NextGames ==
    \/ \E game_id \in GameIds, use_llm \in BOOLEAN : AnalyzeBegin(game_id, use_llm)
    \/ \E j \in 1..Len(httpLog), answer \in GameAnswers : AnalyzeStore(j, answer)
    \/ \E game_id \in GameIds, start_move \in {1, 2}, answer \in GameAnswers :
          LimitedBegin(game_id, start_move, FALSE, answer)
    \/ \E j \in 1..Len(httpLog) : LimitedStore(j)
    \/ \E game_id \in GameIds : GetGame(game_id)
    \/ \E game_id \in GameIds : GetGameAnalysis(game_id)
    \/ \E game_id \in GameIds : DeleteGame(game_id)
    \/ \E game_id \in GameIds : ExportPgn(game_id)
    \/ \E game_id \in {"game", "missing", "invalid_id"} :
          GameRequests < MaxGameRequests /\ MoveLookup(game_id, 0)
    \/ \E j \in 1..Len(moveLog) : MoveRefuse(j)
    \/ \E j \in 1..Len(moveLog), answer \in GameAnswers :
          MoveAnalyse(j, answer, LlmRaises, TRUE)

SpecGames == InitGames /\ [][NextGames]_vars

\* C21: POST /analyse_move answers 400 "Invalid game ID" for a malformed id
\* and 404 "Game not found" for a well-formed id that db.games does not hold
\* when the request arrives, also when the game was analysed and then
\* removed with DELETE /games/{game_id}.
C21_UnknownGameRefused ==
    \A j \in 1..Len(moveLog) :
        moveLog[j].pc = "done" =>
            /\ moveLog[j].game_id = "invalid_id" =>
                   /\ moveLog[j].status = 400
                   /\ moveLog[j].response = HTTPException("Invalid game ID")
            /\ (moveLog[j].game_id # "invalid_id" /\ ~moveLog[j].game_stored) =>
                   /\ moveLog[j].status = 404
                   /\ moveLog[j].response = HTTPException("Game not found")

\* the position of the stored game (1.e5 from FEN_KP_W) after k moves
PositionAfter(k) == IF k = 0 THEN FEN_KP_W ELSE FEN_KP_E5_B

\* C22: for the stored game with n moves, POST /analyse_move with
\* move_index < 0 or move_index > n is answered 400 "Invalid move index",
\* makes no remote request and stores nothing; every index 0..n is answered
\* 200, and what is requested remotely and stored is the position after
\* exactly move_index moves.
C22_MoveIndexChecked ==
    /\ \A j \in 1..Len(moveLog) :
          (moveLog[j].pc = "done" /\ moveLog[j].game_id = "game") =>
              IF moveLog[j].move_index \in 0..Len(GameMoves)
              THEN /\ moveLog[j].status = 200
                   /\ moveLog[j].stored =>
                          \E n \in 1..Len(move_analysis_cache) :
                              /\ move_analysis_cache[n].game_id = "game"
                              /\ move_analysis_cache[n].move_index = moveLog[j].move_index
              ELSE /\ moveLog[j].status = 400
                   /\ moveLog[j].response = HTTPException("Invalid move index")
                   /\ moveLog[j].requests = 0
                   /\ ~moveLog[j].stored /\ ~moveLog[j].from_cache
    /\ \A n \in 1..Len(move_analysis_cache) :
          /\ move_analysis_cache[n].game_id = "game"
          /\ move_analysis_cache[n].move_index \in 0..Len(GameMoves)
          /\ move_analysis_cache[n].position_fen
                 = PositionAfter(move_analysis_cache[n].move_index)
    /\ \A n \in 1..Len(remoteLog) :
          \E j \in 1..Len(moveLog) :
              /\ moveLog[j].game_id = "game"
              /\ moveLog[j].move_index \in 0..Len(GameMoves)
              /\ moveLog[j].requests = 1
              /\ remoteLog[n].fen = PositionAfter(moveLog[j].move_index)

\* a request with an index past the last move was refused and one for the
\* last move analysed and stored
C22_Witness ==
    \E i, j \in 1..Len(moveLog) :
        /\ moveLog[i].game_id = "game" /\ moveLog[i].move_index = Len(GameMoves) + 1
        /\ moveLog[i].pc = "done" /\ moveLog[i].status = 400
        /\ moveLog[j].game_id = "game" /\ moveLog[j].move_index = Len(GameMoves)
        /\ moveLog[j].pc = "done" /\ moveLog[j].stored /\ moveLog[j].requests = 1

\* the score format_eval reads: "mate" unless it is absent or null, else "cp"
TopScore(eval_json) ==
    IF eval_json.json # "object" \/ eval_json.pvs = <<>> THEN None
    ELSE IF eval_json.pvs[1].mate # None THEN eval_json.pvs[1].mate
    ELSE eval_json.pvs[1].cp

\* C23: format_eval returns a string for every input, and returns "N/A" for
\* a response without pvs, for a top variation with neither mate nor cp, and
\* for a score that is not a JSON number.
C23_AnomalyYieldsNA ==
    fmtIn # None =>
        /\ IsStr(fmtOut)
        /\ TopScore(fmtIn.eval_json).t # "int" => fmtOut = Str(NA)

\* the record was built from an HTTP 200 body
FromRemote(result) == ~result.terminal /\ ~result.fallback /\ result.error = ""

VariationsBounded(result) ==
    /\ Len(result.variations) <= 3
    /\ FromRemote(result) =>
           \A i \in 1..Len(result.variations) : Len(result.variations[i]) <= 8
    /\ result.terminal => result.variations = <<>>

\* C24: every record _get_position_evaluation returns or keeps in its cache
\* has at most three variations; a variation taken from a remote answer has at
\* most eight moves; the record of a terminal position has no variations.
C24_VariationsBounded ==
    program = "server" =>
        /\ \A i \in 1..Len(callLog) : VariationsBounded(callLog[i].result)
        /\ \A fen \in AllFens : cache[fen] # NoEntry => VariationsBounded(cache[fen])

\* an answer with four variations, the first nine moves long, was turned into
\* a record of three, the first cut to eight, and the next call got it from the cache
C24_Witness ==
    /\ program = "server"
    /\ Len(callLog) = 2
    /\ callLog[1].requests = 1
    /\ callLog[1].answer = Http(200, JsonObject(<<PV_LONG, PV_CP20, PV_MATE3, PV_NOSCORE>>))
    /\ Len(callLog[1].result.variations) = 3
    /\ Len(callLog[1].result.variations[1]) = 8
    /\ callLog[2].requests = 0
    /\ callLog[2].result = callLog[1].result

\* material balance, centre occupation and attacked kings, in hundredths
StatedFallbackEval(board) ==
    _calculate_material_balance(board)
    + 10 * Cardinality({p \in board.pieces : p.sq \in {D4, D5, E4, E5} /\ p.color = WHITE})
    - 10 * Cardinality({p \in board.pieces : p.sq \in {D4, D5, E4, E5} /\ p.color = BLACK})
    - (IF board.wkAttacked THEN 20 ELSE 0)
    + (IF board.bkAttacked THEN 20 ELSE 0)

\* C25: the eval of every fallback record of a legal position is the material
\* balance plus 0.1 / minus 0.1 per white / black piece on d4, d5, e4, e5,
\* minus 0.2 when the white king is attacked and plus 0.2 when the black king
\* is attacked, wherever the kings stand.
C25_FallbackEvalFormula ==
    program = "server" =>
        \A i \in 1..Len(callLog) :
            (callLog[i].result.fallback /\ Board(callLog[i].key[1]).valid) =>
                callLog[i].result.eval = Num(StatedFallbackEval(Board(callLog[i].key[1])))

\* access i is the first write of its key
FirstPut(i) ==
    /\ lookupLog[i].op = "put"
    /\ \A h \in 1..(i - 1) :
          ~(lookupLog[h].op = "put" /\ lookupLog[h].key = lookupLog[i].key)

\* C26: once the evaluation cache holds a record for a key, the entry never
\* changes: every later write of the key leaves the record of the first write
\* in place, and every later lookup of the key returns that record.
C26_CacheEntryImmutable ==
    \A i, n \in 1..Len(lookupLog) :
        (FirstPut(i) /\ i < n /\ lookupLog[n].key = lookupLog[i].key) =>
            lookupLog[n].value = lookupLog[i].value

\* what the step taken on command cmd does to the loop
StatedEffect(cmd) ==
    CASE cmd.c = "q" -> review'.pc = "done" /\ review'.idx = review.idx
      [] cmd.c = "l" -> review'.pc \in {"sleep", "var"} /\ review'.idx = review.idx
      [] cmd.c = "s" /\ cmd.n \in 1..review.total ->
             review'.pc = "sleep" /\ review'.idx = cmd.n
      [] OTHER -> review'.pc = "sleep" /\ review'.idx = review.idx + 1

\* C27: every pass of the review loop runs with 1 <= idx <= total; at the
\* prompt, Enter or end of input advances idx by one, 's N' sets idx to N
\* when 1 <= N <= total and advances by one otherwise, 'l N' leaves idx
\* unchanged, 'q' ends the program, an unknown command advances by one; and
\* the loop ends after a pass exactly when idx exceeds total.
C27_ReviewLoopIndex ==
    [][/\ review.pc \in {"top", "prompt", "var"} => review.idx \in 1..review.total
       /\ review.pc = "prompt" => \E cmd \in ReviewCommands : StatedEffect(cmd)
       /\ review.pc = "sleep" => (review'.pc = "done" <=> review.idx > review.total)]_vars

\* C28: the analyses collection never holds two documents with the same
\* game_id and move_number.
C28_OneAnalysisPerMove ==
    \A i, j \in 1..Len(analyses) :
        (analyses[i].game_id = analyses[j].game_id
             /\ analyses[i].move_number = analyses[j].move_number) => i = j

\* C29: every request to a game endpoint (analyze, analyze_limited, get game,
\* get analysis, delete, export) with a malformed id is answered 400, and
\* with the id of a game the store never held 404; the handler does not turn
\* its own 4xx into a 500.
C29_ClientErrorsKept ==
    \A j \in 1..Len(httpLog) :
        httpLog[j].pc = "done" =>
            /\ httpLog[j].game_id = "invalid_id" => httpLog[j].answer.status = 400
            /\ httpLog[j].game_id = "missing" => httpLog[j].answer.status = 404

\* the stored analysis the request read holds a mate string as evaluation
ReadMateEvaluation(request) ==
    \E n \in 1..Len(request.docs) : IsStr(request.docs[n].evaluation)

\* C30: a stored evaluation that is a mate string is accepted by the
\* handlers that return it: GET /games/{id}/analysis and GET
\* /games/{id}/export of a stored game whose analysis holds one are answered
\* 200, and so is a POST /analyse_move served from move_analysis_cache.
C30_MateEvaluationsServed ==
    /\ \A j \in 1..Len(httpLog) :
          (/\ httpLog[j].pc = "done"
           /\ httpLog[j].handler \in {"get_analysis", "export"}
           /\ httpLog[j].answer.detail # "Game not found"
           /\ ReadMateEvaluation(httpLog[j])) => httpLog[j].answer.status = 200
    /\ \A j \in 1..Len(moveLog) :
          (moveLog[j].pc = "done" /\ moveLog[j].from_cache) => moveLog[j].status = 200

====
